---- MODULE Spec2Model ----
(***************************************************************************)
(* Verification model of @kitiumai/encryption: the circuit breaker of the  *)
(* health monitoring decorator, the LRU/TTL cache, the envelope encrypter  *)
(* on top of the local provider, the decorator stack createProvider builds *)
(* and the registry-backed local crypto operations.                        *)
(*                                                                         *)
(* One module holds one specification per component: SpecCB (circuit       *)
(* breaker), SpecLRU (the generic cache), SpecEnv (envelope encrypter with *)
(* its cache and the local provider), SpecPipe (one call through the       *)
(* metrics, retry, audit and policy decorators) and SpecOps                *)
(* (LocalCryptoOperations and LocalKeyManagement behind the policy         *)
(* decorator), with SpecAlg, SpecAdapter, SpecWrap, SpecBackoff and        *)
(* SpecSig for narrower views of them, and SpecSd (KeySoftDeleteManager),  *)
(* SpecAlog (ComplianceAuditLogger) and SpecNet (NetworkSecurityManager).  *)
(* A specification leaves the variables of the other components at their   *)
(* initial value.                                                          *)
(***************************************************************************)
EXTENDS Integers, Sequences, FiniteSets, TLC

VARIABLES
  now,        \* the value Date.now() returns (milliseconds)
  cbCfg,      \* CircuitBreakerConfig of the breaker instance
  cb,         \* the breaker's private fields: state, failureCount, successCount, nextAttempt
  inflight,   \* forwarded healthCheck calls suspended on `await super.healthCheck()`
  cbLast,     \* history: the last healthCheck event (call or settlement), what its caller got and the fields before it
  streak,     \* history: failed results of the wrapped check since its last healthy result
  hoStreak,   \* history: healthy results observed in HALF_OPEN since HALF_OPEN was entered or a failure was seen
  cacheCfg,   \* LRUCache constructor arguments: maxSize, ttlMs
  cache,      \* LRUCache.cache: the Map's entries in insertion order
  lruLast,    \* history: the last cache call, its key, what it returned, whether the key was held before
  recency,    \* history: the held keys, least recently used (set or successfully read) first
  setAt,      \* history: per held key the time of its last set (-1: not held)
  keyVersion,   \* EnvelopeEncrypter.keyVersion
  providerKeys, \* LocalEncryptionProvider.keys: key identifier -> key bytes
  calls,        \* the EnvelopeEncrypter.encrypt calls: position, locals, returned payload
  decrypted,    \* what EnvelopeEncrypter.decrypt returned, when the last call made was a decrypt
  dropped,      \* history: data keys that left the envelope cache (expired, evicted, replaced or cleared)
  pipe,         \* a provider composed by createProvider and the call made on it: position, locals, effects so far
  ops,          \* LocalCryptoOperations behind the policy decorator: key store, a kept encrypt result, the last call
  sig,          \* LocalSignatureOperations: the signing key store and the last call
  sd,           \* KeySoftDeleteManager: options, deletedKeys, purgeProtectedKeys and the last call
  alog,         \* ComplianceAuditLogger: maxLogSize, events, and history of what was recorded
  net           \* NetworkSecurityManager: the stored policies and the last call

cbVars == <<cbCfg, cb, inflight, cbLast, streak, hoStreak>>
lruVars == <<cacheCfg, cache, lruLast, recency, setAt>>
envVars == <<keyVersion, providerKeys, calls, decrypted, dropped>>
provVars == <<pipe, ops, sig>>
featVars == <<sd, alog, net>>
vars == <<now, cbVars, lruVars, envVars, provVars, featVars>>

--------------------------------------------------------------------------
(* Bounds of the model *)

MaxTime == 2
MaxThreshold == 3
MaxResetTimeout == 2
MaxInflight == 2
MaxFailures == 5
MaxSize == 2
MaxTtl == 1
MaxAccess == 1
MaxCalls == 2
MaxAttempts == 3
MaxDelay == 3
MaxDraws == 3
MaxRetention == 1
MaxLogSize == 2
MaxRecords == 4

--------------------------------------------------------------------------
(* CircuitBreakerHealthMonitoring *)

CLOSED == "CLOSED"
OPEN == "OPEN"
HALF_OPEN == "HALF_OPEN"

CircuitFields == [state |-> CLOSED, failureCount |-> 0, successCount |-> 0, nextAttempt |-> 0]

CircuitConfigs ==
  [failureThreshold : 1..MaxThreshold,
   successThreshold : 1..MaxThreshold,
   timeout : {10000},
   resetTimeoutMs : 0..MaxResetTimeout]

DEFAULT_CIRCUIT_CONFIG ==
  [failureThreshold |-> 5, successThreshold |-> 2, timeout |-> 10000, resetTimeoutMs |-> 60000]

\* healthCheck, OPEN branch: the call is rejected while now < nextAttempt
rejectsEarly(c, t) == c.state = OPEN /\ t + 1 < c.nextAttempt
rejects(c, t) == c.state = OPEN /\ t < c.nextAttempt

\* a healthCheck that forwards the call of an OPEN breaker without trying HALF_OPEN
admitStaysOpen(c) == c

\* healthCheck, OPEN branch once the timeout has elapsed: try HALF_OPEN
admit(c) ==
  IF c.state = OPEN
  THEN [c EXCEPT !.state = HALF_OPEN, !.successCount = 0]
  ELSE c

onSuccess(c, cfg) ==
  LET c1 == [c EXCEPT !.failureCount = 0] IN
  IF c1.state = HALF_OPEN
  THEN LET c2 == [c1 EXCEPT !.successCount = @ + 1] IN
       IF c2.successCount >= cfg.successThreshold
       THEN [c2 EXCEPT !.state = CLOSED, !.failureCount = 0, !.successCount = 0]
       ELSE c2
  ELSE c1

onFailureStrict(c, cfg, t) ==
  LET c1 == [c EXCEPT !.failureCount = @ + 1, !.successCount = 0] IN
  IF c1.failureCount > cfg.failureThreshold
  THEN [c1 EXCEPT !.state = OPEN, !.nextAttempt = t + cfg.resetTimeoutMs]
  ELSE c1

onFailureKeepSuccess(c, cfg, t) ==
  LET c1 == [c EXCEPT !.failureCount = @ + 1] IN
  IF c1.failureCount >= cfg.failureThreshold
  THEN [c1 EXCEPT !.state = OPEN, !.nextAttempt = t + cfg.resetTimeoutMs]
  ELSE c1

onFailure(c, cfg, t) ==
  LET c1 == [c EXCEPT !.failureCount = @ + 1, !.successCount = 0] IN
  IF c1.failureCount >= cfg.failureThreshold
  THEN [c1 EXCEPT !.state = OPEN, !.nextAttempt = t + cfg.resetTimeoutMs]
  ELSE c1

Outcomes == {"healthy", "unhealthy", "throw"}

\* a breaker that answers CircuitBreakerOpen on the call that trips it
settledWithOpenOnTrip(o, c) ==
  IF o # "healthy" /\ c.state = OPEN THEN "CircuitBreakerOpen" ELSE o

\* healthCheck after the await, once onSuccess or onFailure left the fields
\* c: `return result` for a result, healthy or not, `throw error` for an
\* error of the wrapped check
settledWith(o, c) == o

--------------------------------------------------------------------------
(* LRUCache<K, V> *)

Undefined == "undefined"
Keys == {"A", "B", "C"}
Values == {"x", "y"}

KeysOf(c) == {c[i].key : i \in 1..Len(c)}

\* Map.get / Map.has: the position of key k in the Map, 0 when it is absent
IndexOf(c, k) ==
  IF \E i \in 1..Len(c) : c[i].key = k
  THEN CHOOSE i \in 1..Len(c) : c[i].key = k
  ELSE 0

\* Map.delete: the other entries keep their order
RemoveAt(c, i) == SubSeq(c, 1, i - 1) \o SubSeq(c, i + 1, Len(c))

\* Map.set: a held key keeps its position, a new key goes last
mapSet(c, e) ==
  LET i == IndexOf(c, e.key) IN
  IF i = 0 THEN Append(c, e) ELSE [c EXCEPT ![i] = e]

\* get with a sliding expiry
lruGetSliding(c, k, t) ==
  LET i == IndexOf(c, k) IN
  IF i = 0 THEN [cache |-> c, value |-> Undefined]
  ELSE IF c[i].expiresAt < t THEN [cache |-> RemoveAt(c, i), value |-> Undefined]
  ELSE [cache |-> [c EXCEPT ![i].accessCount = @ + 1, ![i].lastAccessed = t,
                            ![i].expiresAt = @ + 1],
        value |-> c[i].value]

lruGet(c, k, t) ==
  LET i == IndexOf(c, k) IN
  IF i = 0 THEN [cache |-> c, value |-> Undefined]
  ELSE IF c[i].expiresAt < t THEN [cache |-> RemoveAt(c, i), value |-> Undefined]
  ELSE [cache |-> [c EXCEPT ![i].accessCount = @ + 1, ![i].lastAccessed = t],
        value |-> c[i].value]

\* the loop of evictLRU from entry i on: best is the index of oldestKey
\* (0 while oldestTime is still Infinity)
RECURSIVE oldestFrom(_, _, _)
oldestFrom(c, i, best) ==
  IF i > Len(c) THEN best
  ELSE IF best = 0 \/ c[i].lastAccessed < c[best].lastAccessed
       THEN oldestFrom(c, i + 1, i)
       ELSE oldestFrom(c, i + 1, best)

evictLRU(c) ==
  LET i == oldestFrom(c, 1, 0) IN
  IF i = 0 THEN c ELSE RemoveAt(c, i)

lruSet(c, k, v, t, cfg) ==
  LET c1 == IF Len(c) >= cfg.maxSize /\ IndexOf(c, k) = 0 THEN evictLRU(c) ELSE c
  IN mapSet(c1, [key |-> k, value |-> v, expiresAt |-> t + cfg.ttlMs,
                 accessCount |-> 0, lastAccessed |-> t])

\* a clear that leaves the entries in place
lruClearKeep(c) == c

\* this.cache.clear()
lruClear(c) == << >>

lruSize(c) == Len(c)

\* the sum of the accessCount fields from entry i on
RECURSIVE Hits(_, _)
Hits(c, i) == IF i > Len(c) THEN 0 ELSE c[i].accessCount + Hits(c, i + 1)

CacheConfigs == [maxSize : 0..MaxSize, ttlMs : 0..MaxTtl]

\* history: move key k to the most recently used end
Touch(r, k) == Append(SelectSeq(r, LAMBDA x : x # k), k)
\* history: keep only the keys the cache still holds
Held(r, c) == SelectSeq(r, LAMBDA x : x \in KeysOf(c))

--------------------------------------------------------------------------
(* AES-256-GCM of node:crypto, symbolically: a ciphertext can be opened with *)
(* the key and nonce that made it, and its tag binds key, nonce, additional  *)
(* data and content.                                                         *)

AES_256_GCM == "AES-256-GCM"
SUPPORTED_ENCRYPTION == {AES_256_GCM}
NoKey == "no key"
DecryptFailed == "Error: unable to authenticate data"
UnknownKey == "Error: Unknown key"
UnsupportedAlgorithm == "UnsupportedAlgorithmError"
Errors == {DecryptFailed, UnknownKey, UnsupportedAlgorithm}

\* createCipheriv(key, iv); setAAD(aad) when given; update(pt), final(), getAuthTag()
aesGcmEncrypt(key, iv, aad, pt) ==
  [ciphertext |-> [key |-> key, iv |-> iv, pt |-> pt],
   authTag |-> [key |-> key, iv |-> iv, aad |-> aad, pt |-> pt]]

\* createDecipheriv(key, iv); setAAD(aad) when given; setAuthTag(tag); update(ct), final()
aesGcmDecrypt(key, iv, aad, tag, ct) ==
  IF ct.key = key /\ ct.iv = iv /\ tag = [key |-> key, iv |-> iv, aad |-> aad, pt |-> ct.pt]
  THEN ct.pt
  ELSE DecryptFailed

--------------------------------------------------------------------------
(* LocalEncryptionProvider *)

\* crypto.randomBytes: a draw gives a value no other draw gives; a draw is named
\* by the place that makes it and the call (or key identifier) it is made for,
\* each place drawing once per call
randomBytes(place, id) == place \o ":" \o id

DefaultEncryptionKeyId == "local-default"
EnvelopeMaster == "envelope-master"
ProviderKeyIds == {DefaultEncryptionKeyId, EnvelopeMaster, "k1"}

\* encrypt, id naming the call that draws the nonce
providerEncrypt(keys, request, id) ==
  LET keyId == IF request.keyId = Undefined THEN DefaultEncryptionKeyId ELSE request.keyId
      algorithm == IF request.algorithm = Undefined THEN AES_256_GCM ELSE request.algorithm
      key == IF keys[keyId] = NoKey THEN randomBytes("key", keyId) ELSE keys[keyId]
      iv == randomBytes("nonce", id)
      enc == aesGcmEncrypt(key, iv, request.additionalData, request.plaintext)
  IN IF algorithm \notin SUPPORTED_ENCRYPTION
     THEN [keys |-> keys, result |-> UnsupportedAlgorithm]
     ELSE [keys |-> [keys EXCEPT ![keyId] = key],
           result |-> [ciphertext |-> enc.ciphertext, iv |-> iv, authTag |-> enc.authTag,
                       keyId |-> keyId, algorithm |-> algorithm,
                       additionalData |-> request.additionalData]]

providerDecrypt(keys, request) ==
  LET keyId == IF request.keyId = Undefined THEN DefaultEncryptionKeyId ELSE request.keyId
      algorithm == IF request.algorithm = Undefined THEN AES_256_GCM ELSE request.algorithm
  IN IF algorithm \notin SUPPORTED_ENCRYPTION THEN UnsupportedAlgorithm
     ELSE IF keys[keyId] = NoKey THEN UnknownKey
     ELSE aesGcmDecrypt(keys[keyId], request.iv, request.additionalData,
                        request.authTag, request.ciphertext)

--------------------------------------------------------------------------
(* EnvelopeEncrypter *)

Versions == {"v1", "v2"}
\* the plaintext of call t: opaque bytes, another call's being different
plaintextOf(t) == "plaintext:" \o ToString(t)
AdditionalData == {Undefined, "aad"}
RequestKeyIds == {Undefined, "k1"}
Requests ==
  UNION {[plaintext : {plaintextOf(t)}, additionalData : AdditionalData, keyId : RequestKeyIds]
           : t \in 1..MaxCalls}

ValuesOf(c) == {c[i].value : i \in 1..Len(c)}

\* `${keyId}:${this.keyVersion}`: for one version tag, distinct identifiers give distinct strings
cacheKeyOf(keyId, version) == <<keyId, version>>

\* encrypt without the cache.set of a fresh data key
dataKeyForNoSet(c, ck, t, cfg, id) ==
  LET g == lruGet(c, ck, t) IN
  IF g.value # Undefined
  THEN [cache |-> g.cache, dataKey |-> g.value, hit |-> TRUE]
  ELSE [cache |-> g.cache, dataKey |-> randomBytes("dataKey", id), hit |-> FALSE]

\* encrypt: the cached data key of cache key ck, or a fresh one put into the
\* cache; id names the call
dataKeyFor(c, ck, t, cfg, id) ==
  LET g == lruGet(c, ck, t) IN
  IF g.value # Undefined
  THEN [cache |-> g.cache, dataKey |-> g.value, hit |-> TRUE]
  ELSE [cache |-> lruSet(g.cache, ck, randomBytes("dataKey", id), t, cfg),
        dataKey |-> randomBytes("dataKey", id), hit |-> FALSE]

\* encrypt after the await, with the data key looked up again in the cache
bulkKeyFromCache(call, c, version) ==
  LET i == IndexOf(c, cacheKeyOf(call.keyId, version)) IN
  IF i = 0 THEN call.dataKey ELSE c[i].value

\* encrypt after the await: the key createCipheriv is given is the local dataKey;
\* the cache c and the version tag are not read
bulkKey(call, c, version) == call.dataKey

\* decrypt that prefers a cached data key to the unwrap
envelopeDecryptCached(keys, payload, c, version) ==
  LET i == IndexOf(c, cacheKeyOf(payload.keyId, version))
      dataKey == IF i # 0 THEN c[i].value
                 ELSE providerDecrypt(keys,
                        [ciphertext |-> payload.wrappedDataKey.ciphertext,
                         iv |-> payload.wrappedDataKey.iv,
                         authTag |-> payload.wrappedDataKey.authTag,
                         keyId |-> payload.keyId,
                         algorithm |-> AES_256_GCM,
                         additionalData |-> payload.wrappedDataKey.additionalData])
  IN IF dataKey \in Errors THEN dataKey
     ELSE aesGcmDecrypt(dataKey, payload.iv, payload.additionalData,
                        payload.authTag, payload.ciphertext)

\* decrypt: unwrap through the provider, then open the payload;
\* the cache c and the version tag are not read
envelopeDecrypt(keys, payload, c, version) ==
  LET dataKey == providerDecrypt(keys,
                   [ciphertext |-> payload.wrappedDataKey.ciphertext,
                    iv |-> payload.wrappedDataKey.iv,
                    authTag |-> payload.wrappedDataKey.authTag,
                    keyId |-> payload.keyId,
                    algorithm |-> AES_256_GCM,
                    additionalData |-> payload.wrappedDataKey.additionalData])
  IN IF dataKey \in Errors THEN dataKey
     ELSE aesGcmDecrypt(dataKey, payload.iv, payload.additionalData,
                        payload.authTag, payload.ciphertext)

CallIds == 1..MaxCalls

\* EnvelopeOptions: maxCachedKeys and dataKeyTtlMs, at the ends of their ranges
EnvelopeConfigs == [maxSize : {0, 1, MaxSize}, ttlMs : {0, MaxTtl}]

\* a call not made yet: its locals are all undefined
NoRequest == [plaintext |-> Undefined, additionalData |-> Undefined, keyId |-> Undefined]
NoCipher == aesGcmEncrypt(Undefined, Undefined, Undefined, Undefined)
NoWrapped ==
  [ciphertext |-> NoCipher.ciphertext, iv |-> Undefined, authTag |-> NoCipher.authTag,
   keyId |-> Undefined, algorithm |-> Undefined, additionalData |-> Undefined]
NoPayload ==
  [ciphertext |-> NoCipher.ciphertext, iv |-> Undefined, authTag |-> NoCipher.authTag,
   keyId |-> Undefined, algorithm |-> Undefined, additionalData |-> Undefined,
   wrappedDataKey |-> NoWrapped]

NotCalled ==
  [pc |-> "idle", request |-> NoRequest, keyId |-> Undefined, dataKey |-> Undefined,
   hit |-> FALSE, wraps |-> 0, wrappedDataKey |-> NoWrapped, payload |-> NoPayload]

NoDecrypt == [call |-> 0, result |-> Undefined]

--------------------------------------------------------------------------
(* Errors (errors.ts): an error is told by its code; a plain Error has none *)

POLICY_VIOLATION == "POLICY_VIOLATION"
UNSUPPORTED_ALGORITHM == "UNSUPPORTED_ALGORITHM"
AUDIT_SINK_ERROR == "AUDIT_SINK_ERROR"
KEY_NOT_FOUND == "KEY_NOT_FOUND"
ECONNRESET == "ECONNRESET"
ETIMEDOUT == "ETIMEDOUT"
ENOTFOUND == "ENOTFOUND"

\* an optional array: left out, or given with its elements
NotGiven == [given |-> FALSE, of |-> {}]
Given(s) == [given |-> TRUE, of |-> s]

\* a promise resolved with a result: the key identifier and algorithm it
\* carries (encrypt, sign) and its value
Resolved(keyId, algorithm, value) ==
  [kind |-> "ok", code |-> Undefined, id |-> Undefined,
   keyId |-> keyId, algorithm |-> algorithm, value |-> value]

\* a promise rejected with an error object: its code, and id telling the
\* object apart from the other error objects of the call
Rejected(code, id) ==
  [kind |-> "error", code |-> code, id |-> id,
   keyId |-> Undefined, algorithm |-> Undefined, value |-> Undefined]

--------------------------------------------------------------------------
(* PolicyChecker *)

Actions == {"encrypt", "decrypt", "sign", "verify"}

\* enforceAllowedKeyIds: TRUE when it throws PolicyViolationError
enforceAllowedKeyIds(rule, context) ==
  IF ~rule.allowedKeyIds.given \/ context.keyId \in {Undefined, ""}
  THEN FALSE
  ELSE context.keyId \notin rule.allowedKeyIds.of

\* enforceAllowedAlgorithms: TRUE when it throws PolicyViolationError
enforceAllowedAlgorithms(rule, context) ==
  IF ~rule.allowedAlgorithms.given \/ context.algorithm \in {Undefined, ""}
  THEN FALSE
  ELSE context.algorithm \notin rule.allowedAlgorithms.of

\* enforce: TRUE when it throws; the decorators pass no createdAt, so
\* enforceMaxAge returns at once
enforce(rules, action, context) ==
  \E i \in 1..Len(rules) :
    /\ rules[i].action = action
    /\ enforceAllowedKeyIds(rules[i], context) \/ enforceAllowedAlgorithms(rules[i], context)

--------------------------------------------------------------------------
(* withRetry *)

DEFAULT_RETRY_CONFIG ==
  [maxAttempts |-> 3, initialDelayMs |-> 100, maxDelayMs |-> 5000, backoffMultiplier |-> 2,
   retryableErrors |-> Given({ECONNRESET, ETIMEDOUT, ENOTFOUND})]

\* config.retryableErrors?.some((code) => error.code === code) ?? true
isRetryable(config, error) ==
  IF config.retryableErrors.given THEN error.code \in config.retryableErrors.of ELSE TRUE

\* Math.min(delayMs * config.backoffMultiplier, config.maxDelayMs)
nextDelay(config, delayMs) ==
  IF delayMs * config.backoffMultiplier < config.maxDelayMs
  THEN delayMs * config.backoffMultiplier
  ELSE config.maxDelayMs

--------------------------------------------------------------------------
(* The composed provider of createProvider: what one call does, in order *)

ED25519 == "ED25519"

\* createAuditEvent (timestamp and correlationId left out)
createAuditEvent(type, provider, keyId, algorithm, success) ==
  [type |-> type, provider |-> provider, keyId |-> keyId,
   metadata |-> algorithm, success |-> success]

NoEvent == createAuditEvent(Undefined, Undefined, Undefined, Undefined, FALSE)

\* the observable effects of a call, in the order they happen
Invoked(op, o) ==   \* the base operation is called and returns ("ok") or throws ("error", its code)
  [kind |-> "invoke", op |-> op, event |-> NoEvent, accepted |-> FALSE, ms |-> 0,
   status |-> o.kind, code |-> o.code]
Audited(event, accepted) ==  \* the emitter is called with event; the sink records or rejects
  [kind |-> "audit", op |-> event.type, event |-> event, accepted |-> accepted, ms |-> 0,
   status |-> Undefined, code |-> Undefined]
Waited(ms) ==       \* await delay(ms)
  [kind |-> "wait", op |-> Undefined, event |-> NoEvent, accepted |-> FALSE, ms |-> ms,
   status |-> Undefined, code |-> Undefined]
Latency(op, ms) ==  \* collector.recordLatency(op, ms)
  [kind |-> "latency", op |-> op, event |-> NoEvent, accepted |-> FALSE, ms |-> ms,
   status |-> Undefined, code |-> Undefined]
Counted(op, status) ==  \* collector.incrementCounter(op, {status})
  [kind |-> "counter", op |-> op, event |-> NoEvent, accepted |-> FALSE, ms |-> 0,
   status |-> status, code |-> Undefined]

\* request.keyId ?? defaultKeyId
resolveKeyId(request, defaultKeyId) ==
  IF request.keyId = Undefined THEN defaultKeyId ELSE request.keyId

\* request.algorithm ?? the operation's default algorithm
resolveAlgorithm(request) ==
  IF request.algorithm # Undefined THEN request.algorithm
  ELSE IF request.op \in {"sign", "verify"} THEN ED25519 ELSE AES_256_GCM

\* the base operation returns: its result carries the resolved key identifier
\* and algorithm
baseResult(request, defaultKeyId, value) ==
  Resolved(resolveKeyId(request, defaultKeyId), resolveAlgorithm(request), value)

\* PolicyEnforced*Operations: enforce, then the wrapped operation, whose
\* outcome is o; n names the attempt
policyEnforced(cfg, request, o, n) ==
  IF cfg.policy /\ enforce(cfg.rules, request.op,
                           [keyId |-> resolveKeyId(request, cfg.defaultKeyId),
                            algorithm |-> request.algorithm])
  THEN [outcome |-> Rejected(POLICY_VIOLATION, "policy:" \o n), log |-> << >>]
  ELSE [outcome |-> o, log |-> <<Invoked(request.op, o)>>]

\* the event of the try branch: encrypt and sign take key identifier and
\* algorithm from the result, decrypt and verify from the request; verify
\* reports isValid as success
successEvent(cfg, request, result) ==
  IF request.op \in {"encrypt", "sign"}
  THEN createAuditEvent(request.op, cfg.name, result.keyId, result.algorithm, TRUE)
  ELSE createAuditEvent(request.op, cfg.name, request.keyId, request.algorithm,
                        request.op = "verify" => result.value = "true")

\* the event of the catch branch
failureEvent(cfg, request) ==
  createAuditEvent(request.op, cfg.name, request.keyId, request.algorithm, FALSE)

\* Audited*Operations without the catch branch's emit
auditedNoFailureEvent(cfg, request, inner, s1, s2, n) ==
  IF ~cfg.audit THEN inner
  ELSE IF inner.outcome.kind = "ok"
  THEN IF s1 THEN [outcome |-> inner.outcome,
                   log |-> Append(inner.log, Audited(successEvent(cfg, request, inner.outcome), TRUE))]
       ELSE [outcome |-> Rejected(AUDIT_SINK_ERROR, "sink:" \o n \o ".1"),
             log |-> Append(inner.log, Audited(successEvent(cfg, request, inner.outcome), FALSE))]
  ELSE inner

\* Audited*Operations: inner is what `await super.op(request)` did; s1 and s2
\* tell whether the sink accepts the first and the second event it is handed.
\* The emit of the try branch is inside the try: when it rejects, the catch
\* branch emits a failure event and throws what it caught.
audited(cfg, request, inner, s1, s2, n) ==
  IF ~cfg.audit THEN inner
  ELSE IF inner.outcome.kind = "ok"
  THEN IF s1
       THEN [outcome |-> inner.outcome,
             log |-> Append(inner.log, Audited(successEvent(cfg, request, inner.outcome), TRUE))]
       ELSE IF s2
       THEN [outcome |-> Rejected(AUDIT_SINK_ERROR, "sink:" \o n \o ".1"),
             log |-> inner.log \o <<Audited(successEvent(cfg, request, inner.outcome), FALSE),
                                    Audited(failureEvent(cfg, request), TRUE)>>]
       ELSE [outcome |-> Rejected(AUDIT_SINK_ERROR, "sink:" \o n \o ".2"),
             log |-> inner.log \o <<Audited(successEvent(cfg, request, inner.outcome), FALSE),
                                    Audited(failureEvent(cfg, request), FALSE)>>]
  ELSE IF s1
       THEN [outcome |-> inner.outcome,
             log |-> Append(inner.log, Audited(failureEvent(cfg, request), TRUE))]
       ELSE [outcome |-> Rejected(AUDIT_SINK_ERROR, "sink:" \o n \o ".1"),
             log |-> Append(inner.log, Audited(failureEvent(cfg, request), FALSE))]

\* the policy layer around the audit layer: a rejected request is not audited
attemptOncePolicyOutside(cfg, request, o, s1, s2, n) ==
  IF cfg.policy /\ enforce(cfg.rules, request.op,
                           [keyId |-> resolveKeyId(request, cfg.defaultKeyId),
                            algorithm |-> request.algorithm])
  THEN [outcome |-> Rejected(POLICY_VIOLATION, "policy:" \o n), log |-> << >>]
  ELSE audited(cfg, request, [outcome |-> o, log |-> <<Invoked(request.op, o)>>], s1, s2, n)

\* one invocation of what withRetry (or measureLatency) is given: the audited,
\* policy-enforced operation
attemptOnce(cfg, request, o, s1, s2, n) ==
  audited(cfg, request, policyEnforced(cfg, request, o, n), s1, s2, n)

\* a thrown value that is not an Error object (a string, a plain object):
\* it stands where an error's code stands, and reading .code off it gives
\* undefined, which no retryableErrors list holds
NonError == "not an Error"

\* error instanceof Error ? error : new Error(String(error))
toError(error) ==
  IF error.code = NonError THEN Rejected(Undefined, "Error(String(" \o error.id \o "))")
  ELSE error

\* withRetry's catch block without the test of the attempt number
retryDecisionNoLimit(config, attempt, error) ==
  IF ~isRetryable(config, error) THEN "throw" ELSE "wait"

\* withRetry's catch block: throw lastError, or wait and go round the loop
retryDecision(config, attempt, error) ==
  IF ~isRetryable(config, error) \/ attempt = config.maxAttempts THEN "throw" ELSE "wait"

NoOutcome ==
  [kind |-> "none", code |-> Undefined, id |-> Undefined,
   keyId |-> Undefined, algorithm |-> Undefined, value |-> Undefined]

\* the requests of the composed provider: operation, key identifier, algorithm
PipeKeyIds == {Undefined, "k1", "k2"}
PipeRequests == [op : Actions, keyId : PipeKeyIds, algorithm : {Undefined}]
NoPipeRequest == [op |-> Undefined, keyId |-> Undefined, algorithm |-> Undefined]

\* what the base operation can do when it is reached: return, or throw an
\* error with one of these codes (Undefined: a plain Error), or throw a value
\* that is no Error object (NonError)
Faults == {ECONNRESET, KEY_NOT_FOUND, Undefined, NonError}
ValuesFor(op) == IF op = "verify" THEN {"true", "false"} ELSE {"result"}

\* the policy of the composed provider: every action is allowed for k1 only
PipeRules ==
  <<[action |-> "encrypt", allowedKeyIds |-> Given({"k1"}), allowedAlgorithms |-> NotGiven],
    [action |-> "decrypt", allowedKeyIds |-> Given({"k1"}), allowedAlgorithms |-> NotGiven],
    [action |-> "sign", allowedKeyIds |-> Given({"k1"}), allowedAlgorithms |-> NotGiven],
    [action |-> "verify", allowedKeyIds |-> Given({"k1"}), allowedAlgorithms |-> NotGiven]>>

RetryConfigs ==
  [maxAttempts : 0..MaxAttempts, initialDelayMs : {1}, maxDelayMs : {MaxDelay},
   backoffMultiplier : {2},
   retryableErrors : {NotGiven, DEFAULT_RETRY_CONFIG.retryableErrors}]

\* ProviderFactoryOptions: which decorators are configured, and how
Layers == [policy : BOOLEAN, audit : BOOLEAN, retry : BOOLEAN, metrics : BOOLEAN]
pipeConfig(l, r) ==
  [policy |-> l.policy, audit |-> l.audit, retry |-> l.retry, metrics |-> l.metrics,
   retryCfg |-> IF l.retry THEN r ELSE DEFAULT_RETRY_CONFIG,
   rules |-> PipeRules, defaultKeyId |-> "k1", name |-> "local"]
PipeConfigs == {pipeConfig(l, r) : l \in Layers, r \in RetryConfigs}

\* a composed provider no call was made on
PipeCreated(cfg) ==
  [cfg |-> cfg, pc |-> "idle", request |-> NoPipeRequest, attempt |-> 0, delayMs |-> 0,
   elapsed |-> 0, lastError |-> NoOutcome, log |-> << >>, outcome |-> NoOutcome]

--------------------------------------------------------------------------
(* LocalCryptoOperations and LocalKeyManagement behind the policy decorator *)

\* AlgorithmRegistry: the encryption strategies registered by its constructor
RegisteredEncryption == {AES_256_GCM}

OpsDefaultKeyId == "local-default"
\* the key identifier generateKey makes up: `local-${crypto.randomUUID()}`
generatedKeyId(n) == "local-uuid:" \o ToString(n)
\* the key identifiers a request can carry: none, the empty string, names
OpsRequestKeyIds == {Undefined, "", "k1"}
OpsKeyIds == {OpsDefaultKeyId, "", "k1"} \cup {generatedKeyId(n) : n \in 1..MaxDraws}
OpsAlgorithms == {Undefined, AES_256_GCM, "RSA-OAEP"}
OpsEncryptRequests ==
  [plaintext : {"P"}, keyId : OpsRequestKeyIds, algorithm : OpsAlgorithms,
   additionalData : AdditionalData]

\* encrypt that provisions no key
cryptoOpsEncryptNoProvision(keys, defaultKeyId, request, n) ==
  LET keyId == IF request.keyId = Undefined THEN defaultKeyId ELSE request.keyId
      algorithm == IF request.algorithm = Undefined THEN AES_256_GCM ELSE request.algorithm
      key == IF keys[keyId] = NoKey THEN randomBytes("key", keyId \o "#" \o n) ELSE keys[keyId]
      iv == randomBytes("nonce", n)
      enc == aesGcmEncrypt(key, iv, request.additionalData, request.plaintext)
  IN IF algorithm \notin RegisteredEncryption
     THEN [keys |-> keys, outcome |-> Rejected(UNSUPPORTED_ALGORITHM, "registry")]
     ELSE [keys |-> keys,
           outcome |-> Resolved(keyId, algorithm,
                         [ciphertext |-> enc.ciphertext, iv |-> iv, authTag |-> enc.authTag,
                          additionalData |-> request.additionalData])]

\* LocalCryptoOperations.encrypt; n names the random draws of the call (the
\* key drawn for keyId is the n-th one drawn for it). The missing key is
\* provisioned before the strategy is looked up.
cryptoOpsEncrypt(keys, defaultKeyId, request, n) ==
  LET keyId == IF request.keyId = Undefined THEN defaultKeyId ELSE request.keyId
      algorithm == IF request.algorithm = Undefined THEN AES_256_GCM ELSE request.algorithm
      key == IF keys[keyId] = NoKey THEN randomBytes("key", keyId \o "#" \o n) ELSE keys[keyId]
      keys2 == [keys EXCEPT ![keyId] = key]
      iv == randomBytes("nonce", n)
      enc == aesGcmEncrypt(key, iv, request.additionalData, request.plaintext)
  IN IF algorithm \notin RegisteredEncryption
     THEN [keys |-> keys2, outcome |-> Rejected(UNSUPPORTED_ALGORITHM, "registry")]
     ELSE [keys |-> keys2,
           outcome |-> Resolved(keyId, algorithm,
                         [ciphertext |-> enc.ciphertext, iv |-> iv, authTag |-> enc.authTag,
                          additionalData |-> request.additionalData])]

\* decrypt that provisions the key it does not find, as encrypt does
cryptoOpsDecryptProvisioning(keys, defaultKeyId, request, n) ==
  LET keyId == IF request.keyId = Undefined THEN defaultKeyId ELSE request.keyId
      key == IF keys[keyId] = NoKey THEN randomBytes("key", keyId \o "#" \o n) ELSE keys[keyId]
  IN [keys |-> [keys EXCEPT ![keyId] = key],
      outcome |-> Rejected(Undefined, "decipher.final")]

\* LocalCryptoOperations.decrypt
cryptoOpsDecrypt(keys, defaultKeyId, request, n) ==
  LET keyId == IF request.keyId = Undefined THEN defaultKeyId ELSE request.keyId
      algorithm == IF request.algorithm = Undefined THEN AES_256_GCM ELSE request.algorithm
      opened == aesGcmDecrypt(keys[keyId], request.iv, request.additionalData,
                              request.authTag, request.ciphertext)
  IN [keys |-> keys,
      outcome |->
        IF keys[keyId] = NoKey THEN Rejected(KEY_NOT_FOUND, keyId)
        ELSE IF algorithm \notin RegisteredEncryption THEN Rejected(UNSUPPORTED_ALGORITHM, "registry")
        ELSE IF opened = DecryptFailed THEN Rejected(Undefined, "decipher.final")
        ELSE Resolved(Undefined, Undefined, opened)]

\* the decrypt request built from an encrypt result
decryptRequestOf(result) ==
  [ciphertext |-> result.value.ciphertext, iv |-> result.value.iv,
   authTag |-> result.value.authTag, keyId |-> result.keyId,
   algorithm |-> result.algorithm, additionalData |-> result.value.additionalData]

\* a decrypt request that comes from no encrypt call of this provider
foreignCiphertext == aesGcmEncrypt("key:elsewhere", "nonce:elsewhere", Undefined, "Q")
OpsForeignRequests ==
  [ciphertext : {foreignCiphertext.ciphertext}, iv : {"nonce:elsewhere"},
   authTag : {foreignCiphertext.authTag}, keyId : OpsRequestKeyIds,
   algorithm : {Undefined, "RSA-OAEP"}, additionalData : {Undefined}]

\* the policies: none, or one encrypt rule that allows k1 only
OpsPolicies ==
  {<< >>, <<[action |-> "encrypt", allowedKeyIds |-> Given({"k1"}), allowedAlgorithms |-> NotGiven]>>}

\* policies about algorithms: one rule for encrypt and one for decrypt that
\* allow the algorithms given
AlgorithmPolicies ==
  {<<[action |-> "encrypt", allowedKeyIds |-> NotGiven, allowedAlgorithms |-> Given(allowed)],
     [action |-> "decrypt", allowedKeyIds |-> NotGiven, allowedAlgorithms |-> Given(allowed)]>> :
     allowed \in {{AES_256_GCM}, {"RSA-OAEP"}}}

NoHeld == [set |-> FALSE, request |-> NoRequest, result |-> NoOutcome, rotated |-> FALSE]
NoOp == [op |-> "none", keyId |-> Undefined, held |-> FALSE, algorithm |-> Undefined, outcome |-> NoOutcome]

\* new LocalCryptoOperations(defaultKeyId) behind new PolicyEnforcedCryptoOperations
\* with the rules given (policy TRUE) or undecorated
OpsCreated(policy, rules) ==
  [policy |-> policy, rules |-> rules, defaultKeyId |-> OpsDefaultKeyId,
   keys |-> [k \in OpsKeyIds |-> IF k = OpsDefaultKeyId THEN randomBytes("key", k \o "#1") ELSE NoKey],
   drawn |-> [k \in OpsKeyIds |-> IF k = OpsDefaultKeyId THEN 1 ELSE 0],
   provisioned |-> {OpsDefaultKeyId},
   draws |-> 0,
   held |-> NoHeld,
   last |-> NoOp]

--------------------------------------------------------------------------
(* LocalSignatureOperations *)

RegisteredSigning == {ED25519}
SigDefaultKeyId == "local-default"
SigKeyIds == {SigDefaultKeyId, "", "k1"}
SigAlgorithms == {Undefined, ED25519, "RSA-PSS"}

\* SignatureRequest: payload, keyId?, algorithm?
SigSignRequests ==
  [payload : {"M"}, keyId : {Undefined, "", "k1"}, algorithm : SigAlgorithms]
\* VerificationRequest & { publicKey? }: the signature and the public key are
\* the caller's; whether they fit each other is for the strategy to say
SigVerifyRequests ==
  [payload : {"M"}, signature : {"signature"}, keyId : {Undefined, "", "k1"},
   algorithm : SigAlgorithms, publicKey : {Undefined, "publicKey"}]

\* this.keys is keyed by `${keyId}-sign`; the key store starts empty
signKeyOf(keyId) == keyId \o "-sign"

\* LocalSignatureOperations.sign: the signing key is provisioned before the
\* registry is asked for the strategy
signatureOpsSign(keys, defaultKeyId, request) ==
  LET keyId == IF request.keyId = Undefined THEN defaultKeyId ELSE request.keyId
      algorithm == IF request.algorithm = Undefined THEN ED25519 ELSE request.algorithm
      keys2 == IF keys[keyId] = NoKey
               THEN [keys EXCEPT ![keyId] = randomBytes("key", signKeyOf(keyId))]
               ELSE keys
  IN [keys |-> keys2,
      outcome |-> IF algorithm \notin RegisteredSigning
                  THEN Rejected(UNSUPPORTED_ALGORITHM, "registry")
                  ELSE Resolved(keyId, algorithm, "signature")]

\* LocalSignatureOperations.verify; valid is what strategy.verify answers
\* for the payload, the signature and the public key it is given
signatureOpsVerify(keys, defaultKeyId, request, valid) ==
  LET keyId == IF request.keyId = Undefined THEN defaultKeyId ELSE request.keyId
      algorithm == IF request.algorithm = Undefined THEN ED25519 ELSE request.algorithm
      answer == IF algorithm \notin RegisteredSigning
                THEN Rejected(UNSUPPORTED_ALGORITHM, "registry")
                ELSE Resolved(Undefined, Undefined, IF valid THEN "true" ELSE "false")
  IN [keys |-> keys,
      outcome |-> IF request.publicKey # Undefined THEN answer
                  ELSE IF keys[keyId] = NoKey
                  THEN Resolved(Undefined, Undefined, "false")
                  ELSE answer]

\* new LocalSignatureOperations(defaultKeyId)
SigCreated ==
  [defaultKeyId |-> SigDefaultKeyId,
   keys |-> [k \in SigKeyIds |-> NoKey],
   signed |-> 0,
   last |-> [op |-> "none", keyId |-> Undefined, publicKey |-> FALSE,
             known |-> FALSE, outcome |-> NoOutcome]]

--------------------------------------------------------------------------
(* KeySoftDeleteManager; its clock is counted in days, the unit of retentionDays *)

SdKeyIds == {"k1", "k2"}
SoftDeleteOptions == [retentionDays : 0..MaxRetention, enablePurgeProtection : BOOLEAN]
NoDeletedKeyState == [deleted |-> FALSE, deletedAt |-> 0, recoverableUntil |-> 0]

\* canRecover(keyId) at time t
canRecover(deletedKeys, keyId, t) ==
  /\ deletedKeys[keyId].deleted
  /\ t <= deletedKeys[keyId].recoverableUntil

\* new KeySoftDeleteManager(options)
SdCreated(options) ==
  [options |-> options,
   deletedKeys |-> [k \in SdKeyIds |-> NoDeletedKeyState],
   purgeProtectedKeys |-> {},
   last |-> [op |-> "none", keyId |-> Undefined, outcome |-> "none"]]

--------------------------------------------------------------------------
(* ComplianceAuditLogger *)

\* Array.prototype.slice(start) with an integer start: a negative start counts
\* from the end, and -0 is 0
slice(a, start) ==
  LET from == IF start < 0
              THEN (IF Len(a) + start < 0 THEN 0 ELSE Len(a) + start)
              ELSE (IF start > Len(a) THEN Len(a) ELSE start)
  IN SubSeq(a, from + 1, Len(a))

\* the events recorded: told apart by type and success; n is the position of
\* the record call among all record calls
RecordedEvents(n) == [type : {"encrypt", "decrypt"}, success : BOOLEAN, n : {n}]

\* record(event)
auditRecord(auditLog, maxLogSize, event) ==
  LET pushed == Append(auditLog, event)
  IN IF Len(pushed) > maxLogSize THEN slice(pushed, 0 - maxLogSize) ELSE pushed

\* new ComplianceAuditLogger(maxLogSize)
AlogCreated(maxLogSize) == [maxLogSize |-> maxLogSize, auditLog |-> << >>, recorded |-> << >>]

--------------------------------------------------------------------------
(* NetworkSecurityManager: access control policies *)

NetRuleIds == {"r1", "r2"}
AccessControlPolicies ==
  [ruleId : NetRuleIds, effect : {"allow", "deny"}, principal : {"*", "u1"},
   action : {<<"*">>, <<"encrypt">>, <<"encrypt", "decrypt">>}, resource : {<<"*">>, <<"k1">>}]

\* array.some(x => x === '*' || x === wanted)
someIs(array, wanted) == \E i \in 1..Len(array) : array[i] = "*" \/ array[i] = wanted

\* policyMatches(policy, principal, action, resource)
policyMatches(policy, principal, action, resource) ==
  LET principalMatches == policy.principal = "*" \/ policy.principal = principal
      actionMatches == someIs(policy.action, action)
      resourceMatches == someIs(policy.resource, resource)
  IN principalMatches /\ actionMatches /\ resourceMatches

\* one `for (const policy of this.accessControlPolicies.values())` loop of
\* evaluateAccess from position i on: a policy of the effect matches
RECURSIVE loopFinds(_, _, _, _, _, _)
loopFinds(policies, i, effect, principal, action, resource) ==
  IF i > Len(policies) THEN FALSE
  ELSE IF policies[i].effect = effect /\ policyMatches(policies[i], principal, action, resource)
       THEN TRUE
       ELSE loopFinds(policies, i + 1, effect, principal, action, resource)

\* an evaluation in one loop, in which the first matching policy decides
RECURSIVE firstMatchDecides(_, _, _, _, _)
firstMatchDecides(policies, i, principal, action, resource) ==
  IF i > Len(policies) THEN FALSE
  ELSE IF policyMatches(policies[i], principal, action, resource)
       THEN policies[i].effect = "allow"
       ELSE firstMatchDecides(policies, i + 1, principal, action, resource)

evaluateAccessFirstMatch(policies, principal, action, resource) ==
  firstMatchDecides(policies, 1, principal, action, resource)

\* evaluateAccess(principal, action, resource): the deny loop, then the allow loop
evaluateAccess(policies, principal, action, resource) ==
  IF loopFinds(policies, 1, "deny", principal, action, resource) THEN FALSE
  ELSE IF loopFinds(policies, 1, "allow", principal, action, resource) THEN TRUE
  ELSE FALSE

\* Map.set(policy.ruleId, policy): a held key keeps its place, a new one goes last
policiesSet(policies, policy) ==
  IF \E i \in 1..Len(policies) : policies[i].ruleId = policy.ruleId
  THEN [i \in 1..Len(policies) |-> IF policies[i].ruleId = policy.ruleId THEN policy ELSE policies[i]]
  ELSE Append(policies, policy)

\* Map.delete(ruleId)
policiesDelete(policies, ruleId) == SelectSeq(policies, LAMBDA q : q.ruleId # ruleId)

NoAccessCall ==
  [op |-> "none", principal |-> Undefined, action |-> Undefined, resource |-> Undefined,
   result |-> FALSE]

\* new NetworkSecurityManager(config): no policy stored
NetCreated == [policies |-> << >>, last |-> NoAccessCall]

--------------------------------------------------------------------------
(* Initial values *)

CBIdle ==
  /\ cb = CircuitFields
  /\ inflight = 0
  /\ cbLast = [op |-> "none", outcome |-> "none", got |-> "none", pre |-> CircuitFields, at |-> 0]
  /\ streak = 0
  /\ hoStreak = 0

LRUIdle ==
  /\ cache = << >>
  /\ lruLast = [op |-> "none", key |-> Undefined, result |-> Undefined, had |-> FALSE]
  /\ recency = << >>
  /\ setAt = [k \in Keys |-> -1]

PipeIdle == pipe = PipeCreated(pipeConfig([policy |-> FALSE, audit |-> FALSE, retry |-> FALSE, metrics |-> FALSE], DEFAULT_RETRY_CONFIG))

OpsIdle == ops = OpsCreated(FALSE, << >>)
SigIdle == sig = SigCreated
SdIdle == sd = SdCreated([retentionDays |-> 0, enablePurgeProtection |-> FALSE])
AlogIdle == alog = AlogCreated(100000)
NetIdle == net = NetCreated
FeatIdle == SdIdle /\ AlogIdle /\ NetIdle

EnvIdle ==
  /\ keyVersion = "v1"
  /\ providerKeys = [k \in ProviderKeyIds |-> IF k = DefaultEncryptionKeyId THEN randomBytes("key", k) ELSE NoKey]
  /\ calls = [t \in CallIds |-> NotCalled]
  /\ decrypted = NoDecrypt
  /\ dropped = {}

CBInit ==
  /\ now = 0
  /\ cbCfg \in CircuitConfigs
  /\ CBIdle
  /\ cacheCfg = [maxSize |-> 100, ttlMs |-> 300000]
  /\ LRUIdle
  /\ EnvIdle
  /\ PipeIdle
  /\ OpsIdle
  /\ SigIdle
  /\ FeatIdle

LRUInit ==
  /\ now = 0
  /\ cbCfg = DEFAULT_CIRCUIT_CONFIG
  /\ CBIdle
  /\ cacheCfg \in CacheConfigs
  /\ LRUIdle
  /\ EnvIdle
  /\ PipeIdle
  /\ OpsIdle
  /\ SigIdle
  /\ FeatIdle

EnvInit ==
  /\ now = 0
  /\ cbCfg = DEFAULT_CIRCUIT_CONFIG
  /\ CBIdle
  /\ cacheCfg \in EnvelopeConfigs
  /\ LRUIdle
  /\ EnvIdle
  /\ PipeIdle
  /\ OpsIdle
  /\ SigIdle
  /\ FeatIdle

PipeInit ==
  /\ now = 0
  /\ cbCfg = DEFAULT_CIRCUIT_CONFIG
  /\ CBIdle
  /\ cacheCfg = [maxSize |-> 100, ttlMs |-> 300000]
  /\ LRUIdle
  /\ EnvIdle
  /\ pipe \in {PipeCreated(cfg) : cfg \in PipeConfigs}
  /\ OpsIdle
  /\ SigIdle
  /\ FeatIdle

OpsInit ==
  /\ now = 0
  /\ cbCfg = DEFAULT_CIRCUIT_CONFIG
  /\ CBIdle
  /\ cacheCfg = [maxSize |-> 100, ttlMs |-> 300000]
  /\ LRUIdle
  /\ EnvIdle
  /\ PipeIdle
  /\ ops \in {OpsCreated(rules # << >>, rules) : rules \in OpsPolicies}
  /\ SigIdle
  /\ FeatIdle

\* LocalCryptoOperations behind a policy decorator whose rules list allowed algorithms
AlgInit ==
  /\ now = 0
  /\ cbCfg = DEFAULT_CIRCUIT_CONFIG
  /\ CBIdle
  /\ cacheCfg = [maxSize |-> 100, ttlMs |-> 300000]
  /\ LRUIdle
  /\ EnvIdle
  /\ PipeIdle
  /\ ops \in {OpsCreated(TRUE, rules) : rules \in AlgorithmPolicies}
  /\ SigIdle
  /\ FeatIdle

\* a provider of createProvider: the decorators configured or not around the
\* crypto operations, LocalKeyManagement over the key store, and the health
\* check behind a circuit breaker
AdapterCircuitConfig ==
  [failureThreshold |-> 1, successThreshold |-> 1, timeout |-> 10000, resetTimeoutMs |-> 0]
AdapterInit ==
  /\ now = 0
  /\ cbCfg = AdapterCircuitConfig
  /\ CBIdle
  /\ cacheCfg = [maxSize |-> 100, ttlMs |-> 300000]
  /\ LRUIdle
  /\ EnvIdle
  /\ pipe \in {PipeCreated(pipeConfig(l, DEFAULT_RETRY_CONFIG)) : l \in Layers}
  /\ OpsIdle
  /\ SigIdle
  /\ FeatIdle

\* LocalSignatureOperations
SigInit ==
  /\ now = 0
  /\ cbCfg = DEFAULT_CIRCUIT_CONFIG
  /\ CBIdle
  /\ cacheCfg = [maxSize |-> 100, ttlMs |-> 300000]
  /\ LRUIdle
  /\ EnvIdle
  /\ PipeIdle
  /\ OpsIdle
  /\ sig = SigCreated
  /\ FeatIdle

\* KeySoftDeleteManager
SdInit ==
  /\ now = 0
  /\ cbCfg = DEFAULT_CIRCUIT_CONFIG
  /\ CBIdle
  /\ cacheCfg = [maxSize |-> 100, ttlMs |-> 300000]
  /\ LRUIdle
  /\ EnvIdle
  /\ PipeIdle
  /\ OpsIdle
  /\ SigIdle
  /\ \E options \in SoftDeleteOptions : sd = SdCreated(options)
  /\ AlogIdle /\ NetIdle

\* ComplianceAuditLogger
AlogInit ==
  /\ now = 0
  /\ cbCfg = DEFAULT_CIRCUIT_CONFIG
  /\ CBIdle
  /\ cacheCfg = [maxSize |-> 100, ttlMs |-> 300000]
  /\ LRUIdle
  /\ EnvIdle
  /\ PipeIdle
  /\ OpsIdle
  /\ SigIdle
  /\ SdIdle
  /\ \E maxLogSize \in 0..MaxLogSize : alog = AlogCreated(maxLogSize)
  /\ NetIdle

\* NetworkSecurityManager
NetInit ==
  /\ now = 0
  /\ cbCfg = DEFAULT_CIRCUIT_CONFIG
  /\ CBIdle
  /\ cacheCfg = [maxSize |-> 100, ttlMs |-> 300000]
  /\ LRUIdle
  /\ EnvIdle
  /\ PipeIdle
  /\ OpsIdle
  /\ SigIdle
  /\ SdIdle /\ AlogIdle
  /\ net = NetCreated

--------------------------------------------------------------------------
(* The clock: Date.now() never decreases between two reads. *)

NoCall == [op |-> "none", key |-> Undefined, result |-> Undefined, had |-> FALSE]

Tick ==
  /\ now < MaxTime
  /\ now' = now + 1
  /\ lruLast' = NoCall
  /\ decrypted' = NoDecrypt
  /\ UNCHANGED <<cbVars, cacheCfg, cache, recency, setAt, keyVersion, providerKeys, calls, dropped, provVars, featVars>>

--------------------------------------------------------------------------
(* CircuitBreakerHealthMonitoring.healthCheck *)

\* healthCheck while OPEN and before nextAttempt: throws CircuitBreakerOpenError
HealthCheckRejected ==
  /\ rejects(cb, now)
  /\ cbLast' = [op |-> "rejected", outcome |-> "CircuitBreakerOpen", got |-> "CircuitBreakerOpen",
                pre |-> cb, at |-> now]
  /\ UNCHANGED <<now, cbCfg, cb, inflight, streak, hoStreak, lruVars, envVars, provVars, featVars>>

\* healthCheck up to `await super.healthCheck()`: the wrapped check is invoked
HealthCheckForwarded ==
  /\ ~rejects(cb, now)
  /\ inflight < MaxInflight
  /\ cb' = admit(cb)
  /\ inflight' = inflight + 1
  /\ hoStreak' = IF cb.state = OPEN THEN 0 ELSE hoStreak
  /\ cbLast' = [op |-> "forwarded", outcome |-> "none", got |-> "none", pre |-> cb, at |-> now]
  /\ UNCHANGED <<now, cbCfg, streak, lruVars, envVars, provVars, featVars>>

\* healthCheck after the await: the wrapped check settled with outcome o
HealthCheckSettled(o) ==
  /\ inflight > 0
  /\ o = "healthy" \/ cb.failureCount < MaxFailures
  /\ inflight' = inflight - 1
  /\ cb' = IF o = "healthy" THEN onSuccess(cb, cbCfg) ELSE onFailure(cb, cbCfg, now)
  /\ streak' = IF o = "healthy" THEN 0 ELSE streak + 1
  /\ hoStreak' = IF o # "healthy" THEN 0
                 ELSE IF cb.state = HALF_OPEN THEN hoStreak + 1 ELSE hoStreak
  /\ cbLast' = [op |-> "settled", outcome |-> o, got |-> settledWith(o, cb'), pre |-> cb, at |-> now]
  /\ UNCHANGED <<now, cbCfg, lruVars, envVars, provVars, featVars>>

CBNext ==
  \/ Tick
  \/ HealthCheckRejected
  \/ HealthCheckForwarded
  \/ \E o \in Outcomes : HealthCheckSettled(o)

SpecCB == CBInit /\ [][CBNext]_vars

\* healthCheck keeps being called, and every call of the wrapped check settles
SpecCBFair ==
  /\ SpecCB
  /\ WF_vars(HealthCheckForwarded)
  /\ WF_vars(\E o \in Outcomes : HealthCheckSettled(o))

--------------------------------------------------------------------------
(* LRUCache: calls *)

LruGet(k) ==
  LET r == lruGet(cache, k, now) IN
  /\ r.value # Undefined => Hits(cache, 1) < MaxAccess
  /\ cache' = r.cache
  /\ lruLast' = [op |-> "get", key |-> k, result |-> r.value, had |-> k \in KeysOf(cache)]
  /\ recency' = IF r.value # Undefined THEN Touch(recency, k) ELSE Held(recency, r.cache)
  /\ setAt' = [x \in Keys |-> IF x \in KeysOf(r.cache) THEN setAt[x] ELSE -1]
  /\ UNCHANGED <<now, cacheCfg, cbVars, envVars, provVars, featVars>>

LruSet(k, v) ==
  LET c2 == lruSet(cache, k, v, now, cacheCfg) IN
  /\ cache' = c2
  /\ lruLast' = [op |-> "set", key |-> k, result |-> Undefined, had |-> k \in KeysOf(cache)]
  /\ recency' = Touch(Held(recency, c2), k)
  /\ setAt' = [x \in Keys |-> IF x = k THEN now
                              ELSE IF x \in KeysOf(c2) THEN setAt[x] ELSE -1]
  /\ UNCHANGED <<now, cacheCfg, cbVars, envVars, provVars, featVars>>

LruClear ==
  /\ cache' = lruClear(cache)
  /\ lruLast' = [op |-> "clear", key |-> Undefined, result |-> Undefined, had |-> FALSE]
  /\ recency' = << >>
  /\ setAt' = [x \in Keys |-> -1]
  /\ UNCHANGED <<now, cacheCfg, cbVars, envVars, provVars, featVars>>

LRUNext ==
  \/ Tick
  \/ \E k \in Keys : LruGet(k)
  \/ \E k \in Keys, v \in Values : LruSet(k, v)
  \/ LruClear

SpecLRU == LRUInit /\ [][LRUNext]_vars

--------------------------------------------------------------------------
(* EnvelopeEncrypter: calls *)

\* an encrypt that wraps the data key on a cache miss only
EncryptStartWrapOnMiss(t, request) ==
  LET keyId == IF request.keyId = Undefined THEN EnvelopeMaster ELSE request.keyId
      k == dataKeyFor(cache, cacheKeyOf(keyId, keyVersion), now, cacheCfg, ToString(t))
      w == providerEncrypt(providerKeys,
             [plaintext |-> k.dataKey, keyId |-> keyId, algorithm |-> AES_256_GCM,
              additionalData |-> request.additionalData], ToString(t))
  IN /\ calls[t].pc = "idle"
     /\ request.plaintext = plaintextOf(t)
     /\ t > 1 => calls[t - 1].pc # "idle"
     /\ cache' = k.cache
     /\ providerKeys' = IF k.hit THEN providerKeys ELSE w.keys
     /\ dropped' = dropped \cup (ValuesOf(cache) \ ValuesOf(k.cache))
     /\ calls' = [calls EXCEPT ![t] =
          [pc |-> "wrap", request |-> request, keyId |-> keyId, dataKey |-> k.dataKey,
           hit |-> k.hit, wraps |-> IF k.hit THEN 0 ELSE 1,
           wrappedDataKey |-> IF k.hit THEN NoWrapped ELSE w.result, payload |-> NoPayload]]
     /\ decrypted' = NoDecrypt
     /\ UNCHANGED <<now, keyVersion, cacheCfg, lruLast, recency, setAt, cbVars, provVars, featVars>>

\* encrypt up to `await this.provider.encrypt(...)`: the cache lookup and the
\* provider's encrypt, which runs up to its own first await when it is called
EncryptStart(t, request) ==
  LET keyId == IF request.keyId = Undefined THEN EnvelopeMaster ELSE request.keyId
      k == dataKeyFor(cache, cacheKeyOf(keyId, keyVersion), now, cacheCfg, ToString(t))
      w == providerEncrypt(providerKeys,
             [plaintext |-> k.dataKey, keyId |-> keyId, algorithm |-> AES_256_GCM,
              additionalData |-> request.additionalData], ToString(t))
  IN /\ calls[t].pc = "idle"
     /\ request.plaintext = plaintextOf(t)
     /\ t > 1 => calls[t - 1].pc # "idle"
     /\ cache' = k.cache
     /\ providerKeys' = w.keys
     /\ dropped' = dropped \cup (ValuesOf(cache) \ ValuesOf(k.cache))
     /\ calls' = [calls EXCEPT ![t] =
          [pc |-> "wrap", request |-> request, keyId |-> keyId, dataKey |-> k.dataKey,
           hit |-> k.hit, wraps |-> 1, wrappedDataKey |-> w.result, payload |-> NoPayload]]
     /\ decrypted' = NoDecrypt
     /\ UNCHANGED <<now, keyVersion, cacheCfg, lruLast, recency, setAt, cbVars, provVars, featVars>>

\* encrypt whose `await this.provider.encrypt(...)` rejects: the cache lookup
\* is done, the provider was called once, and the call ends with the error
EncryptStartRejected(t, request) ==
  LET keyId == IF request.keyId = Undefined THEN EnvelopeMaster ELSE request.keyId
      k == dataKeyFor(cache, cacheKeyOf(keyId, keyVersion), now, cacheCfg, ToString(t))
  IN /\ calls[t].pc = "idle"
     /\ request.plaintext = plaintextOf(t)
     /\ t > 1 => calls[t - 1].pc # "idle"
     /\ cache' = k.cache
     /\ dropped' = dropped \cup (ValuesOf(cache) \ ValuesOf(k.cache))
     /\ calls' = [calls EXCEPT ![t] =
          [pc |-> "rejected", request |-> request, keyId |-> keyId, dataKey |-> k.dataKey,
           hit |-> k.hit, wraps |-> 1, wrappedDataKey |-> NoWrapped, payload |-> NoPayload]]
     /\ decrypted' = NoDecrypt
     /\ UNCHANGED <<now, keyVersion, providerKeys, cacheCfg, lruLast, recency, setAt, cbVars, provVars, featVars>>

\* encrypt after the await: the payload is encrypted under the data key and returned
EncryptResume(t) ==
  LET call == calls[t]
      iv == randomBytes("iv", ToString(t))
      enc == aesGcmEncrypt(bulkKey(call, cache, keyVersion), iv,
                           call.request.additionalData, call.request.plaintext)
  IN /\ call.pc = "wrap"
     /\ calls' = [calls EXCEPT ![t].pc = "done",
                               ![t].payload =
                                  [ciphertext |-> enc.ciphertext, iv |-> iv,
                                   authTag |-> enc.authTag, keyId |-> call.keyId,
                                   algorithm |-> AES_256_GCM,
                                   additionalData |-> call.request.additionalData,
                                   wrappedDataKey |-> call.wrappedDataKey]]
     /\ decrypted' = NoDecrypt
     /\ UNCHANGED <<now, keyVersion, providerKeys, dropped, lruVars, cbVars, provVars, featVars>>

\* decrypt of the payload encrypt call t returned
Decrypt(t) ==
  /\ calls[t].pc = "done"
  /\ decrypted' = [call |-> t,
                   result |-> envelopeDecrypt(providerKeys, calls[t].payload, cache, keyVersion)]
  /\ UNCHANGED <<now, keyVersion, providerKeys, calls, dropped, lruVars, cbVars, provVars, featVars>>

RotateKeyVersion(newVersion) ==
  /\ cache' = lruClear(cache)
  /\ keyVersion' = newVersion
  /\ dropped' = dropped \cup ValuesOf(cache)
  /\ decrypted' = NoDecrypt
  /\ UNCHANGED <<now, providerKeys, calls, cacheCfg, lruLast, recency, setAt, cbVars, provVars, featVars>>

EnvNext ==
  \/ Tick
  \/ \E t \in CallIds, request \in Requests : EncryptStart(t, request)
  \/ \E t \in CallIds : EncryptResume(t)
  \/ \E t \in CallIds : Decrypt(t)
  \/ \E v \in Versions : RotateKeyVersion(v)

SpecEnv == EnvInit /\ [][EnvNext]_vars

\* EnvelopeEncrypter.encrypt over a provider whose encrypt can reject
WrapNext ==
  \/ Tick
  \/ \E t \in CallIds, request \in Requests : EncryptStart(t, request)
  \/ \E t \in CallIds, request \in Requests : EncryptStartRejected(t, request)
  \/ \E t \in CallIds : EncryptResume(t)

SpecWrap == EnvInit /\ [][WrapNext]_vars

--------------------------------------------------------------------------
(* The composed provider: one call through metrics, retry, audit, policy *)

\* a call that makes a first attempt whatever maxAttempts is
PipeCallAtLeastOnce(request) ==
  /\ pipe.pc = "idle"
  /\ pipe' = [pipe EXCEPT !.pc = "attempt", !.request = request, !.attempt = 1,
                          !.delayMs = IF pipe.cfg.retry
                                      THEN pipe.cfg.retryCfg.initialDelayMs ELSE 0]
  /\ UNCHANGED <<now, cbVars, lruVars, envVars, ops, sig, featVars>>

\* the call enters measureLatency and withRetry; with maxAttempts < 1 the
\* loop of withRetry has no round and the function returns undefined
PipeCall(request) ==
  /\ pipe.pc = "idle"
  /\ pipe' = IF pipe.cfg.retry /\ pipe.cfg.retryCfg.maxAttempts < 1
             THEN [pipe EXCEPT !.pc = "settle", !.request = request,
                               !.outcome = Resolved(Undefined, Undefined, Undefined)]
             ELSE [pipe EXCEPT !.pc = "attempt", !.request = request, !.attempt = 1,
                               !.delayMs = IF pipe.cfg.retry
                                           THEN pipe.cfg.retryCfg.initialDelayMs ELSE 0]
  /\ UNCHANGED <<now, cbVars, lruVars, envVars, ops, sig, featVars>>

\* one `await operation()`: the base operation returns value (f = "ok") or
\* throws an error of code f; the sink accepts (s1, s2) what it is handed
PipeAttempt(f, value, s1, s2) ==
  LET cfg == pipe.cfg
      n == ToString(pipe.attempt)
      o == IF f = "ok" THEN baseResult(pipe.request, cfg.defaultKeyId, value)
           ELSE Rejected(f, "base:" \o n)
      a == attemptOnce(cfg, pipe.request, o, s1, s2, n)
      thrown == a.outcome.kind = "error"
      caught == thrown /\ cfg.retry
      again == caught /\ retryDecision(cfg.retryCfg, pipe.attempt, a.outcome) = "wait"
  IN /\ pipe.pc = "attempt"
     /\ value \in ValuesFor(pipe.request.op)
     /\ pipe' = [pipe EXCEPT !.log = pipe.log \o a.log,
                             !.lastError = IF caught THEN toError(a.outcome) ELSE pipe.lastError,
                             !.pc = IF again THEN "wait" ELSE "settle",
                             !.outcome = IF again THEN NoOutcome
                                         ELSE IF caught THEN toError(a.outcome)
                                         ELSE a.outcome]
     /\ UNCHANGED <<now, cbVars, lruVars, envVars, ops, sig, featVars>>

\* await delay(delayMs), the next delay, attempt++ and the loop test
PipeWait ==
  LET config == pipe.cfg.retryCfg
      more == pipe.attempt + 1 <= config.maxAttempts
  IN /\ pipe.pc = "wait"
     /\ pipe' = [pipe EXCEPT !.log = Append(pipe.log, Waited(pipe.delayMs)),
                             !.elapsed = pipe.elapsed + pipe.delayMs,
                             !.delayMs = nextDelay(config, pipe.delayMs),
                             !.attempt = pipe.attempt + 1,
                             !.pc = IF more THEN "attempt" ELSE "settle",
                             !.outcome = IF more THEN NoOutcome ELSE pipe.lastError]
     /\ UNCHANGED <<now, cbVars, lruVars, envVars, ops, sig, featVars>>

\* measureLatency that counts every call as a success
PipeSettleAlwaysSuccess ==
  LET op == pipe.request.op
  IN /\ pipe.pc = "settle"
     /\ pipe' = [pipe EXCEPT !.pc = "done",
                             !.log = IF pipe.cfg.metrics
                                     THEN pipe.log \o <<Latency(op, pipe.elapsed), Counted(op, "success")>>
                                     ELSE pipe.log]
     /\ UNCHANGED <<now, cbVars, lruVars, envVars, ops, sig, featVars>>

\* measureLatency after `await fn()`: one latency sample and one counter
\* increment, then the caller gets the result or the error
PipeSettle ==
  LET op == pipe.request.op
      status == IF pipe.outcome.kind = "ok" THEN "success" ELSE "error"
  IN /\ pipe.pc = "settle"
     /\ pipe' = [pipe EXCEPT !.pc = "done",
                             !.log = IF pipe.cfg.metrics
                                     THEN pipe.log \o <<Latency(op, pipe.elapsed), Counted(op, status)>>
                                     ELSE pipe.log]
     /\ UNCHANGED <<now, cbVars, lruVars, envVars, ops, sig, featVars>>

PipeNext ==
  \/ \E request \in PipeRequests : PipeCall(request)
  \/ \E f \in Faults \cup {"ok"}, value \in {"result", "true", "false"}, s1 \in BOOLEAN, s2 \in BOOLEAN :
       PipeAttempt(f, value, s1, s2)
  \/ PipeWait
  \/ PipeSettle

SpecPipe == PipeInit /\ [][PipeNext]_vars

\* the event loop runs every pending continuation and timer, and the wrapped
\* operation settles: a step that can be taken is taken
SpecPipeFair == SpecPipe /\ WF_vars(PipeNext)

\* withRetry alone around an operation that throws ECONNRESET or returns, for
\* the delays a RetryConfig can hold: nothing relates initialDelayMs to
\* maxDelayMs
BackoffConfigs ==
  [maxAttempts : {MaxAttempts + 1}, initialDelayMs : 1..(MaxDelay + 1), maxDelayMs : 1..MaxDelay,
   backoffMultiplier : 1..2, retryableErrors : {NotGiven}]
BackoffInit ==
  /\ now = 0
  /\ cbCfg = DEFAULT_CIRCUIT_CONFIG
  /\ CBIdle
  /\ cacheCfg = [maxSize |-> 100, ttlMs |-> 300000]
  /\ LRUIdle
  /\ EnvIdle
  /\ pipe \in {PipeCreated(pipeConfig([policy |-> FALSE, audit |-> FALSE, retry |-> TRUE,
                                        metrics |-> FALSE], r)) : r \in BackoffConfigs}
  /\ OpsIdle
  /\ SigIdle
  /\ FeatIdle
BackoffNext ==
  \/ PipeCall([op |-> "encrypt", keyId |-> Undefined, algorithm |-> Undefined])
  \/ \E f \in {ECONNRESET, "ok"} : PipeAttempt(f, "result", TRUE, TRUE)
  \/ PipeWait
  \/ PipeSettle
SpecBackoff == BackoffInit /\ [][BackoffNext]_vars

\* the retry decorator configured with a maxAttempts of -1 or 0, with or
\* without the other decorators
NoRoundConfigs ==
  {pipeConfig([l EXCEPT !.retry = TRUE], [r EXCEPT !.maxAttempts = m]) :
     l \in Layers, r \in RetryConfigs, m \in {0 - 1, 0}}
NoRoundInit ==
  /\ now = 0
  /\ cbCfg = DEFAULT_CIRCUIT_CONFIG
  /\ CBIdle
  /\ cacheCfg = [maxSize |-> 100, ttlMs |-> 300000]
  /\ LRUIdle
  /\ EnvIdle
  /\ pipe \in {PipeCreated(cfg) : cfg \in NoRoundConfigs}
  /\ OpsIdle
  /\ SigIdle
  /\ FeatIdle
NoRoundNext ==
  \/ \E request \in PipeRequests : PipeCall(request)
  \/ PipeSettle
SpecNoRound == NoRoundInit /\ [][NoRoundNext]_vars

--------------------------------------------------------------------------
(* LocalCryptoOperations and LocalKeyManagement: calls *)

\* the policy decorator's view of the provider
OpsPolicyConfig == [policy |-> ops.policy, rules |-> ops.rules, defaultKeyId |-> ops.defaultKeyId]
Provisioned(keys) == {k \in OpsKeyIds : keys[k] # NoKey}

\* what the last call is remembered by: an encrypt result without its bytes
Summary(o) == IF o.kind = "ok" THEN [o EXCEPT !.value = "ciphertext"] ELSE o

\* encrypt; track: the result is kept to be decrypted later
OpsEncrypt(request, track) ==
  LET keyId == resolveKeyId(request, ops.defaultKeyId)
      n == ToString(ops.drawn[keyId] + 1)
      inner == cryptoOpsEncrypt(ops.keys, ops.defaultKeyId, request, n)
      pe == policyEnforced(OpsPolicyConfig,
              [op |-> "encrypt", keyId |-> request.keyId, algorithm |-> request.algorithm],
              inner.outcome, n)
      keys2 == IF pe.log = << >> THEN ops.keys ELSE inner.keys
  IN /\ keys2 # ops.keys => ops.draws < MaxDraws
     /\ track => ~ops.held.set /\ pe.outcome.kind = "ok"
     /\ ops' = [ops EXCEPT !.keys = keys2,
                           !.provisioned = ops.provisioned \cup Provisioned(keys2),
                           !.draws = IF keys2 # ops.keys THEN ops.draws + 1 ELSE ops.draws,
                           !.drawn[keyId] = IF keys2 # ops.keys THEN ops.drawn[keyId] + 1
                                            ELSE ops.drawn[keyId],
                           !.held = IF track
                                    THEN [set |-> TRUE, request |-> request,
                                          result |-> pe.outcome, rotated |-> FALSE]
                                    ELSE ops.held,
                           !.last = [op |-> "encrypt", keyId |-> keyId,
                                     held |-> track, algorithm |-> request.algorithm,
                                     outcome |-> Summary(pe.outcome)]]
     /\ UNCHANGED <<now, cbVars, lruVars, envVars, pipe, sig, featVars>>

\* decrypt of request; held: request is built from the kept encrypt result
OpsDecrypt(request, held) ==
  LET keyId == resolveKeyId(request, ops.defaultKeyId)
      n == ToString(ops.drawn[keyId] + 1)
      inner == cryptoOpsDecrypt(ops.keys, ops.defaultKeyId, request, n)
      pe == policyEnforced(OpsPolicyConfig,
              [op |-> "decrypt", keyId |-> request.keyId, algorithm |-> request.algorithm],
              inner.outcome, n)
      keys2 == IF pe.log = << >> THEN ops.keys ELSE inner.keys
  IN /\ ops' = [ops EXCEPT !.keys = keys2,
                           !.provisioned = ops.provisioned \cup Provisioned(keys2),
                           !.last = [op |-> "decrypt", keyId |-> keyId,
                                     held |-> held, algorithm |-> request.algorithm,
                                     outcome |-> pe.outcome]]
     /\ UNCHANGED <<now, cbVars, lruVars, envVars, pipe, sig, featVars>>

OpsDecryptHeld ==
  /\ ops.held.set
  /\ OpsDecrypt(decryptRequestOf(ops.held.result), TRUE)

OpsDecryptForeign(request) == OpsDecrypt(request, FALSE)

\* LocalKeyManagement.generateKey: a key under a new identifier
OpsGenerateKey ==
  LET keyId == generatedKeyId(ops.draws + 1)
      keys2 == [ops.keys EXCEPT ![keyId] = randomBytes("key", keyId \o "#1")]
  IN /\ ops.draws < MaxDraws
     /\ ops' = [ops EXCEPT !.keys = keys2,
                           !.provisioned = ops.provisioned \cup Provisioned(keys2),
                           !.draws = ops.draws + 1,
                           !.drawn[keyId] = 1,
                           !.last = [op |-> "generateKey", keyId |-> keyId,
                                     held |-> FALSE, algorithm |-> Undefined, outcome |-> NoOutcome]]
     /\ UNCHANGED <<now, cbVars, lruVars, envVars, pipe, sig, featVars>>

\* a rotateKey that retains the key bytes an identifier already has
OpsRotateKeyRetaining(keyId) ==
  LET n == ToString(ops.drawn[keyId] + 1)
      keys2 == [ops.keys EXCEPT ![keyId] = IF @ = NoKey
                                           THEN randomBytes("key", keyId \o "#" \o n)
                                           ELSE @]
  IN /\ ops.draws < MaxDraws
     /\ ops' = [ops EXCEPT !.keys = keys2,
                           !.provisioned = ops.provisioned \cup Provisioned(keys2),
                           !.draws = ops.draws + 1,
                           !.drawn[keyId] = ops.drawn[keyId] + 1,
                           !.held = [ops.held EXCEPT !.rotated =
                                       ops.held.rotated \/
                                       (ops.held.set /\ ops.held.result.keyId = keyId)],
                           !.last = [op |-> "rotateKey", keyId |-> keyId,
                                     held |-> FALSE, algorithm |-> Undefined, outcome |-> NoOutcome]]
     /\ UNCHANGED <<now, cbVars, lruVars, envVars, pipe, sig, featVars>>

\* LocalKeyManagement.rotateKey(keyId): new key bytes under keyId, held before or not
OpsRotateKey(keyId) ==
  LET n == ToString(ops.drawn[keyId] + 1)
      keys2 == [ops.keys EXCEPT ![keyId] = randomBytes("key", keyId \o "#" \o n)]
  IN /\ ops.draws < MaxDraws
     /\ ops' = [ops EXCEPT !.keys = keys2,
                           !.provisioned = ops.provisioned \cup Provisioned(keys2),
                           !.draws = ops.draws + 1,
                           !.drawn[keyId] = ops.drawn[keyId] + 1,
                           !.held = [ops.held EXCEPT !.rotated =
                                       ops.held.rotated \/
                                       (ops.held.set /\ ops.held.result.keyId = keyId)],
                           !.last = [op |-> "rotateKey", keyId |-> keyId,
                                     held |-> FALSE, algorithm |-> Undefined, outcome |-> NoOutcome]]
     /\ UNCHANGED <<now, cbVars, lruVars, envVars, pipe, sig, featVars>>

OpsNext ==
  \/ \E request \in OpsEncryptRequests, track \in BOOLEAN : OpsEncrypt(request, track)
  \/ OpsDecryptHeld
  \/ \E request \in OpsForeignRequests : OpsDecryptForeign(request)
  \/ OpsGenerateKey
  \/ \E keyId \in {OpsDefaultKeyId, "", "k1"} : OpsRotateKey(keyId)

SpecOps == OpsInit /\ [][OpsNext]_vars

\* encrypt and decrypt calls only
AlgNext ==
  \/ \E request \in OpsEncryptRequests, track \in BOOLEAN : OpsEncrypt(request, track)
  \/ OpsDecryptHeld
  \/ \E request \in OpsForeignRequests : OpsDecryptForeign(request)

SpecAlg == AlgInit /\ [][AlgNext]_vars

\* a getKeyMetadata that goes through the audit decorator when one is configured
OpsGetKeyMetadataAudited(keyId) ==
  LET o == IF ops.keys[keyId] # NoKey THEN Resolved(keyId, AES_256_GCM, "metadata")
           ELSE Rejected(Undefined, "Unknown key")
  IN /\ ops' = [ops EXCEPT !.last = [op |-> "getKeyMetadata", keyId |-> keyId, held |-> FALSE,
                                     algorithm |-> Undefined, outcome |-> o]]
     /\ pipe' = IF pipe.cfg.audit
                THEN [pipe EXCEPT !.log = Append(pipe.log,
                        Audited(createAuditEvent("getKeyMetadata", pipe.cfg.name, keyId,
                                                 Undefined, o.kind = "ok"), TRUE))]
                ELSE pipe
     /\ UNCHANGED <<now, cbVars, lruVars, envVars, sig, featVars>>

\* LocalKeyManagement.getKeyMetadata(keyId): rejects for an identifier the key
\* store does not hold
OpsGetKeyMetadata(keyId) ==
  LET o == IF ops.keys[keyId] # NoKey THEN Resolved(keyId, AES_256_GCM, "metadata")
           ELSE Rejected(Undefined, "Unknown key")
  IN /\ ops' = [ops EXCEPT !.last = [op |-> "getKeyMetadata", keyId |-> keyId, held |-> FALSE,
                                     algorithm |-> Undefined, outcome |-> o]]
     /\ UNCHANGED <<now, cbVars, lruVars, envVars, pipe, sig, featVars>>

\* ProviderAdapter: encrypt goes to the decorated crypto operations, the key
\* management calls to LocalKeyManagement, healthCheck to the circuit breaker
AdapterNext ==
  \/ PipeCall([op |-> "encrypt", keyId |-> "k2", algorithm |-> Undefined])
  \/ PipeAttempt("ok", "result", TRUE, TRUE)
  \/ PipeSettle
  \/ OpsGenerateKey
  \/ OpsRotateKey("k1")
  \/ \E keyId \in {OpsDefaultKeyId, "k1"} : OpsGetKeyMetadata(keyId)
  \/ HealthCheckForwarded
  \/ \E o \in Outcomes : HealthCheckSettled(o)

SpecAdapter == AdapterInit /\ [][AdapterNext]_vars

--------------------------------------------------------------------------
(* LocalSignatureOperations: calls *)

SigSign(request) ==
  LET keyId == IF request.keyId = Undefined THEN sig.defaultKeyId ELSE request.keyId
      r == signatureOpsSign(sig.keys, sig.defaultKeyId, request)
  IN /\ sig.signed < MaxCalls
     /\ sig' = [sig EXCEPT !.keys = r.keys,
                           !.signed = sig.signed + 1,
                           !.last = [op |-> "sign", keyId |-> keyId, publicKey |-> FALSE,
                                     known |-> sig.keys[keyId] # NoKey, outcome |-> r.outcome]]
     /\ UNCHANGED <<now, cbVars, lruVars, envVars, pipe, ops, featVars>>

SigVerify(request, valid) ==
  LET keyId == IF request.keyId = Undefined THEN sig.defaultKeyId ELSE request.keyId
      r == signatureOpsVerify(sig.keys, sig.defaultKeyId, request, valid)
  IN /\ sig' = [sig EXCEPT !.keys = r.keys,
                           !.last = [op |-> "verify", keyId |-> keyId,
                                     publicKey |-> request.publicKey # Undefined,
                                     known |-> sig.keys[keyId] # NoKey, outcome |-> r.outcome]]
     /\ UNCHANGED <<now, cbVars, lruVars, envVars, pipe, ops, featVars>>

SigNext ==
  \/ \E request \in SigSignRequests : SigSign(request)
  \/ \E request \in SigVerifyRequests, valid \in BOOLEAN : SigVerify(request, valid)

SpecSig == SigInit /\ [][SigNext]_vars

--------------------------------------------------------------------------
(* KeySoftDeleteManager: calls *)

SdOthers == <<cbVars, lruVars, envVars, provVars, alog, net>>

\* softDeleteKey(keyId, metadata)
SdSoftDeleteKey(keyId) ==
  /\ sd' = [sd EXCEPT !.deletedKeys[keyId] =
                        [deleted |-> TRUE, deletedAt |-> now,
                         recoverableUntil |-> now + sd.options.retentionDays],
                      !.last = [op |-> "softDeleteKey", keyId |-> keyId, outcome |-> "ok"]]
  /\ UNCHANGED <<now, SdOthers>>

\* recoverKey(keyId): throws unless canRecover, else removes the entry and returns its metadata
SdRecoverKey(keyId) ==
  /\ sd' = IF canRecover(sd.deletedKeys, keyId, now)
           THEN [sd EXCEPT !.deletedKeys[keyId] = NoDeletedKeyState,
                           !.last = [op |-> "recoverKey", keyId |-> keyId, outcome |-> "metadata"]]
           ELSE [sd EXCEPT !.last = [op |-> "recoverKey", keyId |-> keyId, outcome |-> "Error"]]
  /\ UNCHANGED <<now, SdOthers>>

\* purgeKey(keyId): throws for a purge-protected key, else deletes the entry
SdPurgeKey(keyId) ==
  /\ sd' = IF keyId \in sd.purgeProtectedKeys
           THEN [sd EXCEPT !.last = [op |-> "purgeKey", keyId |-> keyId, outcome |-> "Error"]]
           ELSE [sd EXCEPT !.deletedKeys[keyId] = NoDeletedKeyState,
                           !.last = [op |-> "purgeKey", keyId |-> keyId, outcome |-> "ok"]]
  /\ UNCHANGED <<now, SdOthers>>

\* enablePurgeProtection(keyId): throws when the options disable the feature
SdEnablePurgeProtection(keyId) ==
  /\ sd' = IF ~sd.options.enablePurgeProtection
           THEN [sd EXCEPT !.last = [op |-> "enablePurgeProtection", keyId |-> keyId, outcome |-> "Error"]]
           ELSE [sd EXCEPT !.purgeProtectedKeys = @ \cup {keyId},
                           !.last = [op |-> "enablePurgeProtection", keyId |-> keyId, outcome |-> "ok"]]
  /\ UNCHANGED <<now, SdOthers>>

\* disablePurgeProtection(keyId)
SdDisablePurgeProtection(keyId) ==
  /\ sd' = [sd EXCEPT !.purgeProtectedKeys = @ \ {keyId},
                      !.last = [op |-> "disablePurgeProtection", keyId |-> keyId, outcome |-> "ok"]]
  /\ UNCHANGED <<now, SdOthers>>

\* purgeExpiredKeys(): deletes every entry with now > recoverableUntil
SdPurgeExpiredKeys ==
  /\ sd' = [sd EXCEPT !.deletedKeys =
                        [k \in SdKeyIds |->
                           IF sd.deletedKeys[k].deleted /\ now > sd.deletedKeys[k].recoverableUntil
                           THEN NoDeletedKeyState ELSE sd.deletedKeys[k]],
                      !.last = [op |-> "purgeExpiredKeys", keyId |-> Undefined, outcome |-> "ok"]]
  /\ UNCHANGED <<now, SdOthers>>

SdNext ==
  \/ Tick
  \/ \E keyId \in SdKeyIds : SdSoftDeleteKey(keyId)
  \/ \E keyId \in SdKeyIds : SdRecoverKey(keyId)
  \/ \E keyId \in SdKeyIds : SdPurgeKey(keyId)
  \/ \E keyId \in SdKeyIds : SdEnablePurgeProtection(keyId)
  \/ \E keyId \in SdKeyIds : SdDisablePurgeProtection(keyId)
  \/ SdPurgeExpiredKeys

SpecSd == SdInit /\ [][SdNext]_vars

--------------------------------------------------------------------------
(* ComplianceAuditLogger: calls *)

\* record(event); recorded keeps every event ever recorded, in order
AlogRecord(event) ==
  /\ Len(alog.recorded) < MaxRecords
  /\ alog' = [alog EXCEPT !.auditLog = auditRecord(alog.auditLog, alog.maxLogSize, event),
                          !.recorded = Append(alog.recorded, event)]
  /\ UNCHANGED <<now, cbVars, lruVars, envVars, provVars, sd, net>>

AlogNext == \E event \in RecordedEvents(Len(alog.recorded) + 1) : AlogRecord(event)

SpecAlog == AlogInit /\ [][AlogNext]_vars

--------------------------------------------------------------------------
(* NetworkSecurityManager: calls *)

NetOthers == <<now, cbVars, lruVars, envVars, provVars, sd, alog>>

\* addPolicy(policy)
NetAddPolicy(policy) ==
  /\ net' = [policies |-> policiesSet(net.policies, policy),
             last |-> [NoAccessCall EXCEPT !.op = "addPolicy"]]
  /\ UNCHANGED NetOthers

\* removePolicy(ruleId)
NetRemovePolicy(ruleId) ==
  /\ net' = [policies |-> policiesDelete(net.policies, ruleId),
             last |-> [NoAccessCall EXCEPT !.op = "removePolicy"]]
  /\ UNCHANGED NetOthers

\* evaluateAccess(principal, action, resource)
NetEvaluateAccess(principal, action, resource) ==
  /\ net' = [net EXCEPT !.last =
                        [op |-> "evaluateAccess", principal |-> principal, action |-> action,
                         resource |-> resource,
                         result |-> evaluateAccess(net.policies, principal, action, resource)]]
  /\ UNCHANGED NetOthers

NetNext ==
  \/ \E policy \in AccessControlPolicies : NetAddPolicy(policy)
  \/ \E ruleId \in NetRuleIds : NetRemovePolicy(ruleId)
  \/ \E principal \in {"u1", "u2"}, action \in {"encrypt", "decrypt"}, resource \in {"k1", "k2"} :
       NetEvaluateAccess(principal, action, resource)

SpecNet == NetInit /\ [][NetNext]_vars

--------------------------------------------------------------------------
(* Circuit breaker: steps of a behaviour, told apart by what they change *)

\* a healthCheck call is made (it is rejected or forwarded)
CallStep == now' = now /\ cbLast'.op \in {"rejected", "forwarded"} /\ inflight' >= inflight
\* a forwarded call settles: the wrapped check answered
SettleStep == inflight' = inflight - 1
FailureStep == SettleStep /\ cbLast'.outcome \in {"unhealthy", "throw"}
SuccessStep == SettleStep /\ cbLast'.outcome = "healthy"

\* C1: while the breaker is OPEN, a healthCheck call made before nextAttempt
\* fails with CircuitBreakerOpen, does not invoke the wrapped check and leaves
\* state, failureCount, successCount and nextAttempt unchanged.
C1_OpenFailsFast ==
  [][ (cb.state = OPEN /\ now < cb.nextAttempt /\ CallStep)
        => /\ cbLast'.op = "rejected"
           /\ cbLast'.outcome = "CircuitBreakerOpen"
           /\ inflight' = inflight
           /\ cb' = cb ]_vars

C1_Witness ==
  /\ cbLast.op = "rejected"
  /\ cbLast.pre.state = OPEN
  /\ cbLast.at < cbLast.pre.nextAttempt
  /\ cb = cbLast.pre

\* C2: from CLOSED the breaker opens exactly on the settlement that completes
\* failureThreshold consecutive failures (unhealthy result or thrown error),
\* then nextAttempt = now + resetTimeoutMs; a healthy result while CLOSED
\* resets failureCount to zero.
C2_ClosedToOpen ==
  [][ cb.state = CLOSED
        => /\ (cb'.state = OPEN) <=> (FailureStep /\ streak' = cbCfg.failureThreshold)
           /\ cb'.state = OPEN => cb'.nextAttempt = now + cbCfg.resetTimeoutMs
           /\ cb'.state \in {CLOSED, OPEN}
           /\ SuccessStep => cb'.failureCount = 0 /\ cb'.state = CLOSED ]_vars

\* the breaker opened on the third consecutive failure seen while CLOSED
C2_Witness ==
  /\ cbLast.op = "settled"
  /\ cbLast.pre.state = CLOSED
  /\ cb.state = OPEN
  /\ cbCfg.failureThreshold = 3
  /\ streak = 3
  /\ cb.nextAttempt = cbLast.at + cbCfg.resetTimeoutMs
  /\ cbCfg.resetTimeoutMs > 0

\* C3 (as claimed): in HALF_OPEN any single failed health check opens the
\* breaker and re-arms nextAttempt = now + resetTimeoutMs.
C3_HalfOpenFailureOpens ==
  [][ (cb.state = HALF_OPEN /\ FailureStep)
        => cb'.state = OPEN /\ cb'.nextAttempt = now + cbCfg.resetTimeoutMs ]_vars

\* C4: an OPEN breaker whose nextAttempt has passed moves to HALF_OPEN on the
\* next healthCheck call, which is forwarded; HALF_OPEN closes exactly when
\* successThreshold consecutive healthy results were observed in HALF_OPEN,
\* and on closing both counters are zero.
C4_HalfOpenToClosed ==
  [][ /\ (cb.state = OPEN /\ now >= cb.nextAttempt /\ CallStep)
           => cb'.state = HALF_OPEN /\ cbLast'.op = "forwarded" /\ inflight' = inflight + 1
      /\ cb.state = HALF_OPEN
           => ((cb'.state = CLOSED) <=> (SuccessStep /\ hoStreak' = cbCfg.successThreshold))
      /\ (cb.state # CLOSED /\ cb'.state = CLOSED)
           => cb.state = HALF_OPEN /\ cb'.failureCount = 0 /\ cb'.successCount = 0 ]_vars

\* the breaker closed on the second consecutive healthy probe
C4_Witness ==
  /\ cbLast.op = "settled"
  /\ cbLast.outcome = "healthy"
  /\ cbLast.pre.state = HALF_OPEN
  /\ cb.state = CLOSED
  /\ cbCfg.successThreshold = 2
  /\ cbLast.pre.successCount = 1
  /\ cb.failureCount = 0 /\ cb.successCount = 0

--------------------------------------------------------------------------
(* LRUCache: claims *)

GetStep(k) == now' = now /\ lruLast'.op = "get" /\ lruLast'.key = k
SetStep(k) == now' = now /\ lruLast'.op = "set" /\ lruLast'.key = k

EntryOf(c, k) == c[IndexOf(c, k)]

\* C5 (as claimed): for any configured maxSize, size() <= maxSize after every
\* set, get and clear call.
C5_SizeWithinMaxSize == lruSize(cache) <= cacheCfg.maxSize

\* C6: a get performed later than (time of the key's last set + ttlMs)
\* returns absent and removes the entry; a get that returns a value returns
\* the held one within its lifetime and leaves the entry's expiry unchanged.
C6_NoValuePastExpiry ==
  [][ \A k \in Keys : GetStep(k) =>
        /\ (k \in KeysOf(cache) /\ now > setAt[k] + cacheCfg.ttlMs)
             => lruLast'.result = Undefined /\ k \notin KeysOf(cache')
        /\ lruLast'.result # Undefined
             => /\ k \in KeysOf(cache) /\ k \in KeysOf(cache')
                /\ now <= setAt[k] + cacheCfg.ttlMs
                /\ lruLast'.result = EntryOf(cache, k).value
                /\ EntryOf(cache', k).expiresAt = EntryOf(cache, k).expiresAt
                /\ EntryOf(cache', k).expiresAt = setAt[k] + cacheCfg.ttlMs ]_vars

\* a get found the key it asked for expired and removed it
C6_Witness ==
  /\ lruLast.op = "get"
  /\ lruLast.had
  /\ lruLast.result = Undefined
  /\ lruLast.key \notin KeysOf(cache)
  /\ cacheCfg.ttlMs > 0

\* C7 (as claimed): a set of a new key into a cache holding maxSize entries
\* evicts exactly one entry, the least recently used one, a set and a
\* successful get both refreshing recency.
C7_EvictsLeastRecentlyUsed ==
  [][ \A k \in Keys :
        (SetStep(k) /\ k \notin KeysOf(cache) /\ cacheCfg.maxSize >= 1
           /\ lruSize(cache) = cacheCfg.maxSize)
          => KeysOf(cache') = (KeysOf(cache) \ {Head(recency)}) \cup {k} ]_vars

--------------------------------------------------------------------------
(* EnvelopeEncrypter: steps and what a payload carries *)

\* call u runs encrypt up to its await in this step
StartStep(u) == calls[u].pc = "idle" /\ calls'[u].pc = "wrap"

\* call t is suspended at `await this.provider.encrypt(...)`
InFlight(t) == calls[t].pc = "wrap"

\* what the provider's unwrap of a payload's wrappedDataKey gives
Unwrapped(keys, payload) ==
  providerDecrypt(keys,
    [ciphertext |-> payload.wrappedDataKey.ciphertext,
     iv |-> payload.wrappedDataKey.iv,
     authTag |-> payload.wrappedDataKey.authTag,
     keyId |-> payload.keyId,
     algorithm |-> AES_256_GCM,
     additionalData |-> payload.wrappedDataKey.additionalData])

\* C8: decrypt of the payload an encrypt call returned gives that call's
\* plaintext, whatever the key identifier and additional data, and also after
\* rotateKeyVersion, expiry or eviction of the data key: the result is the one
\* the provider unwrap of the embedded wrappedDataKey leads to, the same as
\* with an empty cache.
C8_RoundTrip ==
  decrypted.call # 0 =>
    /\ decrypted.result = calls[decrypted.call].request.plaintext
    /\ decrypted.result =
         envelopeDecrypt(providerKeys, calls[decrypted.call].payload, lruClear(cache), keyVersion)
    /\ Unwrapped(providerKeys, calls[decrypted.call].payload) = calls[decrypted.call].dataKey

\* C8 happens: a payload made with a key identifier and additional data is
\* decrypted to its plaintext after the version tag was rotated and its data
\* key left the cache.
C8_Witness ==
  /\ decrypted.call # 0
  /\ decrypted.result = calls[decrypted.call].request.plaintext
  /\ calls[decrypted.call].request.keyId # Undefined
  /\ calls[decrypted.call].request.additionalData # Undefined
  /\ calls[decrypted.call].dataKey \in dropped
  /\ keyVersion # "v1"

\* C9 as stated: the set of a fresh data key happens only after the awaited
\* wrap call, so a call suspended at the await that missed the cache has not
\* put its data key into the cache yet.
C9_SetAfterAwait ==
  \A t \in CallIds :
    InFlight(t) /\ ~calls[t].hit => calls[t].dataKey \notin (ValuesOf(cache) \cup dropped)

\* C9, amended: the set happens before the await, in the same synchronous
\* section as the miss. An encrypt call that starts while another call for the
\* same key identifier is suspended at its await finds that call's data key in
\* the cache and generates none, unless the entry has meanwhile expired, been
\* evicted or been cleared by rotateKeyVersion.
C9_SecondCallHits ==
  [][\A u \in CallIds, t \in CallIds :
       (StartStep(u) /\ InFlight(t) /\ calls'[u].keyId = calls[t].keyId
          /\ calls[t].dataKey \notin dropped')
       => (calls'[u].hit /\ calls'[u].dataKey = calls[t].dataKey)]_vars

\* C9 happens: two calls for one key identifier are suspended at their awaits,
\* the first missed and generated a data key, the second hit and holds the same.
C9_Witness ==
  \E t \in CallIds, u \in CallIds :
    /\ t < u
    /\ InFlight(t) /\ InFlight(u)
    /\ calls[t].keyId = calls[u].keyId
    /\ ~calls[t].hit
    /\ calls[u].hit
    /\ calls[u].dataKey = calls[t].dataKey

\* C10: in every interleaving of encrypt calls, rotateKeyVersion and cache
\* evictions, the wrappedDataKey of each returned payload unwraps to the data
\* key that encrypted that payload's ciphertext, and the payload decrypts to
\* its own plaintext.
C10_PayloadSelfConsistent ==
  \A t \in CallIds :
    calls[t].pc = "done" =>
      /\ Unwrapped(providerKeys, calls[t].payload) = calls[t].payload.ciphertext.key
      /\ envelopeDecrypt(providerKeys, calls[t].payload, cache, keyVersion)
           = calls[t].request.plaintext

\* C10 happens: a call returned a consistent payload while an earlier call for
\* the same key identifier was still suspended at its await, the earlier
\* call's data key having left the cache and another one taken its place.
C10_Witness ==
  \E t \in CallIds, u \in CallIds :
    /\ t < u
    /\ InFlight(t)
    /\ calls[u].pc = "done"
    /\ calls[t].keyId = calls[u].keyId
    /\ calls[t].dataKey # calls[u].dataKey
    /\ calls[t].dataKey \in dropped
    /\ calls[u].dataKey \in ValuesOf(cache)
    /\ Unwrapped(providerKeys, calls[u].payload) = calls[u].payload.ciphertext.key

--------------------------------------------------------------------------
(* Data keys that leave the envelope cache *)

\* what zeroize (buffer.fill(0)) leaves in a 32-byte buffer
Zeros == "zeros:32"

\* C11: a data key that left the envelope cache (evicted, found expired on a
\* read, replaced, or cleared by rotateKeyVersion) held zeros when its entry
\* was discarded; dropped holds the bytes the discarded entries held.
C11_ZeroedOnDiscard == \A k \in dropped : k = Zeros

--------------------------------------------------------------------------
(* The composed provider: what a finished call left behind *)

Entries(kinds) == SelectSeq(pipe.log, LAMBDA e : e.kind \in kinds)
AuditEvents == Entries({"audit"})
MetricEntries == Entries({"latency", "counter"})
Invocations == Len(Entries({"invoke"}))
Finished == pipe.pc = "done"
AllLayers == pipe.cfg.policy /\ pipe.cfg.audit /\ pipe.cfg.retry /\ pipe.cfg.metrics

\* the policy checker throws for the request of the call, and was asked
PolicyRejected ==
  /\ pipe.cfg.policy
  /\ pipe.attempt >= 1
  /\ enforce(pipe.cfg.rules, pipe.request.op,
             [keyId |-> resolveKeyId(pipe.request, pipe.cfg.defaultKeyId),
              algorithm |-> pipe.request.algorithm])

\* C12: with policy, audit, retry and metrics composed, a finished call whose
\* request the policy checker rejected left no audit event, no latency sample
\* and no counter increment, and was attempted once, with no backoff wait.
C12_PolicyRejectionSilent ==
  (AllLayers /\ Finished /\ PolicyRejected) =>
    /\ AuditEvents = << >>
    /\ MetricEntries = << >>
    /\ Entries({"wait"}) = << >>
    /\ pipe.attempt = 1

\* the outcomes of the base operation's invocations, in order
BaseOutcomes == [i \in 1..Invocations |-> Entries({"invoke"})[i].status]
\* the success flags of the audit events, in order
AuditFlags == [i \in 1..Len(AuditEvents) |-> AuditEvents[i].event.success]
\* the sink recorded every event it was handed
SinkRecordedAll == \A i \in 1..Len(AuditEvents) : AuditEvents[i].accepted

\* with audit, retry (maxAttempts >= 3) and metrics composed and a sink that
\* records: the base operation threw two retryable errors and then returned
\* (verify: returned true)
FailedTwiceThenSucceeded ==
  /\ pipe.cfg.audit /\ pipe.cfg.retry /\ pipe.cfg.metrics
  /\ pipe.cfg.retryCfg.maxAttempts >= 3
  /\ Finished
  /\ SinkRecordedAll
  /\ BaseOutcomes = <<"error", "error", "ok">>
  /\ \A i \in 1..2 : isRetryable(pipe.cfg.retryCfg, Entries({"invoke"})[i])
  /\ pipe.request.op = "verify" => pipe.outcome.value = "true"

--------------------------------------------------------------------------
(* The composed provider: one attempt, as a step *)

\* the audited operation is called and settles in this step
AttemptStep == pipe.pc = "attempt" /\ pipe'.pc # "attempt"
\* what the step appended to the effects
NewEntries(kinds) ==
  SelectSeq(SubSeq(pipe'.log, Len(pipe.log) + 1, Len(pipe'.log)), LAMBDA e : e.kind \in kinds)
\* the wrapped (policy-enforced) operation returned in this step
WrappedReturned == NewEntries({"invoke"}) # << >> /\ NewEntries({"invoke"})[1].status = "ok"
\* the code of the error the wrapped operation threw in this step
WrappedCode ==
  IF NewEntries({"invoke"}) = << >> THEN POLICY_VIOLATION ELSE NewEntries({"invoke"})[1].code
\* what the audited operation threw or returned in this step
AttemptOutcome == IF pipe'.pc = "wait" THEN pipe'.lastError ELSE pipe'.outcome

\* C14: every call of an audited operation hands exactly one event to the
\* sink, whatever the wrapped operation and the sink do: success=true with the
\* resolved key identifier and algorithm when the wrapped call returned,
\* success=false with the request's when it threw, and then the error the
\* wrapped call threw is the one thrown.
C14_OneEventPerCall ==
  [][(AttemptStep /\ pipe.cfg.audit) =>
       /\ Len(NewEntries({"audit"})) = 1
       /\ NewEntries({"audit"})[1].event =
            IF WrappedReturned
            THEN createAuditEvent(pipe.request.op, pipe.cfg.name,
                                  resolveKeyId(pipe.request, pipe.cfg.defaultKeyId),
                                  resolveAlgorithm(pipe.request), TRUE)
            ELSE createAuditEvent(pipe.request.op, pipe.cfg.name,
                                  pipe.request.keyId, pipe.request.algorithm, FALSE)
       /\ ~WrappedReturned =>
            AttemptOutcome.kind = "error" /\ AttemptOutcome.code = WrappedCode]_vars

\* the sink rejected an event in this step
SinkRejected == \E i \in 1..Len(NewEntries({"audit"})) : ~NewEntries({"audit"})[i].accepted

\* C15: when the sink rejects, the operation's own outcome stands: an
\* encrypt, decrypt or sign that returned is not recorded as failed, its
\* result is what the audited call returns and the retry layer does not run
\* it again; and when the operation threw, the error thrown is its own.
C15_SinkFailureKeepsOutcome ==
  [][(AttemptStep /\ pipe.cfg.audit /\ SinkRejected) =>
       IF WrappedReturned
       THEN /\ pipe.request.op # "verify" =>
                 \A i \in 1..Len(NewEntries({"audit"})) : NewEntries({"audit"})[i].event.success
            /\ AttemptOutcome.kind = "ok"
            /\ pipe'.pc # "wait"
       ELSE AttemptOutcome.code = WrappedCode]_vars

--------------------------------------------------------------------------
(* LocalCryptoOperations behind the policy decorator: steps *)

\* the step is an encrypt (a decrypt) call
OpsEncryptStep == ops'.last.op = "encrypt"
OpsDecryptStep == ops'.last.op = "decrypt"

\* an encrypt rule of the policy lists allowed key identifiers and k is not one
NotAllowedForEncrypt(k) ==
  /\ ops.policy
  /\ \E i \in 1..Len(ops.rules) :
       /\ ops.rules[i].action = "encrypt"
       /\ ops.rules[i].allowedKeyIds.given
       /\ k \notin ops.rules[i].allowedKeyIds.of

\* C16: an encrypt request whose resolved key identifier, whichever it is, is
\* not in a matching encrypt rule's allowedKeyIds throws PolicyViolation: no
\* ciphertext, and the key store is left as it was (the wrapped operation is
\* not reached, no key is provisioned).
C16_DisallowedKeyRejected ==
  [][(OpsEncryptStep /\ NotAllowedForEncrypt(ops'.last.keyId)) =>
       /\ ops'.last.outcome.kind = "error"
       /\ ops'.last.outcome.code = POLICY_VIOLATION
       /\ ops'.keys = ops.keys]_vars

\* C17: whatever calls came before, a decrypt with a key identifier that was
\* never provisioned (by the constructor, encrypt, generateKey or rotateKey)
\* fails with KeyNotFound and leaves the key store as it was.
C17_DecryptNeverProvisions ==
  [][(OpsDecryptStep /\ ops'.last.keyId \notin ops.provisioned) =>
       /\ ops'.last.outcome.kind = "error"
       /\ ops'.last.outcome.code = KEY_NOT_FOUND
       /\ ops'.keys = ops.keys
       /\ ops'.provisioned = ops.provisioned]_vars

\* C17 happens: encrypt has provisioned two other identifiers, and a decrypt
\* with an identifier never provisioned failed with KeyNotFound.
C17_Witness ==
  /\ ops.last.op = "decrypt"
  /\ ops.last.keyId \notin ops.provisioned
  /\ ops.last.outcome.code = KEY_NOT_FOUND
  /\ {"", OpsDefaultKeyId} \subseteq ops.provisioned
  /\ ops.provisioned = Provisioned(ops.keys)

\* C18: decrypt of the request built from an encrypt result returns the
\* plaintext, for a given or default key identifier, a given or default
\* registered algorithm, with or without additional data, whatever calls on
\* other key identifiers came in between, as long as the key was not rotated;
\* the result carries the resolved key identifier and algorithm, and that key
\* is in the store.
C18_RoundTrip ==
  /\ ops.held.set =>
       /\ ops.held.result.keyId = resolveKeyId(ops.held.request, ops.defaultKeyId)
       /\ ops.held.result.algorithm \in RegisteredEncryption
       /\ ops.held.request.algorithm # Undefined =>
            ops.held.result.algorithm = ops.held.request.algorithm
       /\ ops.keys[ops.held.result.keyId] # NoKey
  /\ (ops.last.op = "decrypt" /\ ops.last.held /\ ~ops.held.rotated) =>
       ops.last.outcome = Resolved(Undefined, Undefined, ops.held.request.plaintext)

\* C18 happens: a result encrypted with additional data under a key that
\* encrypt provisioned was decrypted to its plaintext after keys were
\* provisioned or rotated under other identifiers.
C18_Witness ==
  /\ ops.last.op = "decrypt" /\ ops.last.held /\ ~ops.held.rotated
  /\ ops.last.outcome.kind = "ok"
  /\ ops.last.outcome.value = ops.held.request.plaintext
  /\ ops.held.request.additionalData # Undefined
  /\ ops.held.result.keyId # OpsDefaultKeyId
  /\ ops.draws >= 3

--------------------------------------------------------------------------
(* withRetry: which errors are retried, how often, and termination *)

\* the errors the retry layer is to surface at once
NonRetryable == {UNSUPPORTED_ALGORITHM, KEY_NOT_FOUND, POLICY_VIOLATION}

\* C19: under the retry decorator, whatever the retry configuration, an
\* error UnsupportedAlgorithm, KeyNotFound or PolicyViolation caught by
\* withRetry is thrown at once: it is the error the call ends with, and the
\* call is settling or done, never waiting for a backoff delay or attempting
\* again.
C19_NonRetryableOnce ==
  (pipe.cfg.retry /\ pipe.lastError.kind = "error" /\ pipe.lastError.code \in NonRetryable) =>
    /\ pipe.pc \in {"settle", "done"}
    /\ pipe.outcome = pipe.lastError

\* the invocations of the operation withRetry wraps, made so far
Attempts == IF pipe.pc = "attempt" THEN pipe.attempt - 1 ELSE pipe.attempt
\* the operation withRetry wraps returned in this step
OperationReturned == WrappedReturned /\ ~SinkRejected

\* C20: withRetry invokes the operation at most maxAttempts times; when the
\* operation returns, withRetry returns at once, with no further invocation
\* or wait; a wait is always followed by another attempt (none after the
\* last); and every call ends, with a result or with an error.
C20_BoundedAndTerminates ==
  /\ [](pipe.cfg.retry => Attempts <= pipe.cfg.retryCfg.maxAttempts)
  /\ [](Finished => pipe.outcome.kind \in {"ok", "error"})
  /\ [][(AttemptStep /\ pipe.cfg.retry /\ OperationReturned) =>
          pipe'.pc = "settle" /\ pipe'.outcome.kind = "ok"]_vars
  /\ [][pipe.pc = "wait" => pipe'.pc = "attempt"]_vars
  /\ [][pipe.pc \in {"settle", "done"} =>
          /\ NewEntries({"invoke", "audit", "wait"}) = << >>
          /\ pipe'.attempt = pipe.attempt
          /\ pipe'.outcome = pipe.outcome]_vars
  /\ (pipe.pc # "idle") ~> Finished

\* C20 happens: a call under retry used all its attempts, waited between
\* them, and ended with the last error.
C20_Witness ==
  /\ pipe.cfg.retry /\ Finished
  /\ pipe.cfg.retryCfg.maxAttempts = MaxAttempts
  /\ Attempts = MaxAttempts
  /\ Len(Entries({"wait"})) = MaxAttempts - 1
  /\ pipe.outcome.kind = "error"

--------------------------------------------------------------------------
(* withRetry: the backoff delays *)

RECURSIVE Pow(_, _)
Pow(b, e) == IF e = 0 THEN 1 ELSE b * Pow(b, e - 1)
MinOf(a, b) == IF a < b THEN a ELSE b
\* the waits withRetry performed, in order
Waits == [k \in 1..Len(Entries({"wait"})) |-> Entries({"wait"})[k].ms]

\* C21: whatever the retry configuration, no backoff wait exceeds
\* maxDelayMs: the wait before the k-th retry is
\* min(initialDelayMs * backoffMultiplier^(k-1), maxDelayMs).
C21_WaitsCapped ==
  pipe.cfg.retry =>
    \A k \in 1..Len(Waits) :
      /\ Waits[k] <= pipe.cfg.retryCfg.maxDelayMs
      /\ Waits[k] = MinOf(pipe.cfg.retryCfg.initialDelayMs *
                            Pow(pipe.cfg.retryCfg.backoffMultiplier, k - 1),
                          pipe.cfg.retryCfg.maxDelayMs)

--------------------------------------------------------------------------
(* The composed provider: the error the caller receives *)

\* the last invocation of the base operation
LastInvoke == Entries({"invoke"})[Invocations]

\* a finished call whose last attempt reached the base operation, which threw,
\* with a sink that recorded every event (the collector of the model never
\* fails)
BaseThrewLast ==
  /\ Finished
  /\ SinkRecordedAll
  /\ Invocations >= 1
  /\ Invocations = pipe.attempt
  /\ LastInvoke.status = "error"

\* C22: whichever of policy, audit, retry and metrics are composed, with a
\* sink and a collector that do not fail, the caller receives the very value
\* the base operation threw on the last attempt: same object, not wrapped, not
\* converted.
C22_ErrorAsIs ==
  BaseThrewLast => pipe.outcome = Rejected(LastInvoke.code, "base:" \o ToString(pipe.attempt))

--------------------------------------------------------------------------
(* createProvider: the order of the layers *)

\* the policy checker throws for the request of the call
PolicyRejects ==
  /\ pipe.cfg.policy
  /\ enforce(pipe.cfg.rules, pipe.request.op,
             [keyId |-> resolveKeyId(pipe.request, pipe.cfg.defaultKeyId),
              algorithm |-> pipe.request.algorithm])

\* the effects of one attempt, with policy next to the base operation and
\* audit around policy: the base operation is invoked unless the policy layer
\* rejects, and then the audit layer, when present, hands the sink its event
\* (a second one when the sink rejects the first of a call that returned)
AttemptShape(seg) ==
  LET inv == SelectSeq(seg, LAMBDA e : e.kind = "invoke")
      aud == SelectSeq(seg, LAMBDA e : e.kind = "audit")
  IN /\ seg = inv \o aud
     /\ Len(inv) = IF PolicyRejects THEN 0 ELSE 1
     /\ Len(aud) \in (IF pipe.cfg.audit THEN {1, 2} ELSE {0})

\* C23: whichever of policy, audit, retry and metrics are given, the layers
\* present are nested policy (innermost), audit, retry, metrics (outermost).
\* Each attempt of the retry layer goes through audit, then policy, then the
\* base operation; only the retry layer waits, between two such attempts;
\* the metrics layer records once, when the retried sequence is over; a layer
\* left out only removes its own effects.
C23_LayerOrder ==
  /\ [][AttemptStep => AttemptShape(NewEntries({"invoke", "audit", "wait", "latency", "counter"}))]_vars
  /\ [][pipe.pc = "wait" =>
          /\ pipe.cfg.retry
          /\ pipe'.log = Append(pipe.log, Waited(pipe.delayMs))
          /\ pipe'.pc = "attempt"]_vars
  /\ [][pipe.pc = "settle" =>
          pipe'.log = pipe.log \o
            (IF pipe.cfg.metrics
             THEN <<Latency(pipe.request.op, pipe.elapsed),
                    Counted(pipe.request.op,
                            IF pipe.outcome.kind = "ok" THEN "success" ELSE "error")>>
             ELSE << >>)]_vars
  /\ [](~pipe.cfg.retry => pipe.attempt <= 1 /\ Entries({"wait"}) = << >>)
  /\ [](MetricEntries # << >> => Finished /\ pipe.cfg.metrics /\ Len(MetricEntries) = 2)

\* C23 happens: with the four layers, a call the policy layer rejects was
\* audited on each of its attempts, waited between them and was measured once.
C23_Witness ==
  /\ AllLayers /\ Finished /\ PolicyRejects
  /\ pipe.attempt >= 2
  /\ Invocations = 0
  /\ Len(AuditEvents) = pipe.attempt
  /\ Len(Entries({"wait"})) = pipe.attempt - 1
  /\ Len(MetricEntries) = 2

--------------------------------------------------------------------------
(* LocalSignatureOperations: verify against an unknown key *)

\* C24: verify with a key identifier no signing key was ever provisioned for,
\* and without a public key in the request, fails with KeyNotFound, and
\* provisions no signing key.
C24_VerifyUnknownKey ==
  [][(sig'.last.op = "verify" /\ ~sig'.last.publicKey /\ ~sig'.last.known) =>
       /\ sig'.last.outcome.kind = "error"
       /\ sig'.last.outcome.code = KEY_NOT_FOUND
       /\ sig'.keys = sig.keys]_vars

--------------------------------------------------------------------------
(* EnvelopeEncrypter.rotateKeyVersion *)

\* the encrypt calls made so far
Started == {t \in CallIds : calls[t].pc # "idle"}
\* rotateKeyVersion is called in this step: the version tag changes, or the
\* cache is emptied (no other call empties it)
RotateStep == keyVersion' # keyVersion \/ (cache # << >> /\ cache' = << >>)

\* C25: rotateKeyVersion(v) leaves the cache empty, whether v is a new
\* version tag, the current one or an earlier one, and every data key an
\* encrypt call held before it is discarded for good: no encrypt call that
\* starts afterwards gets a discarded data key from the cache, so its data
\* key was generated after the rotation.
C25_RotationDiscardsDataKeys ==
  /\ [][RotateStep =>
          /\ cache' = << >>
          /\ \A t \in Started : calls[t].dataKey \in dropped']_vars
  /\ [][dropped \subseteq dropped']_vars
  /\ [][\A t \in CallIds : StartStep(t) => calls'[t].dataKey \notin dropped]_vars

\* C25 happens: two calls for the same key identifier started at the same
\* instant under the same version tag, with room in the cache and a TTL not
\* yet over, and the second did not get the first one's data key: a rotation
\* to a version tag used before came in between.
C25_Witness ==
  /\ now = 0 /\ cacheCfg.maxSize >= 1 /\ cacheCfg.ttlMs >= 1
  /\ keyVersion = "v1"
  /\ {1, 2} \subseteq Started
  /\ calls[1].keyId = calls[2].keyId
  /\ ~calls[2].hit
  /\ calls[1].dataKey \in dropped
  /\ calls[2].dataKey \notin dropped
  /\ calls[2].dataKey \in ValuesOf(cache)

--------------------------------------------------------------------------
(* EnvelopeEncrypter.encrypt: the age of the data key *)

\* call t encrypts its payload and returns in this step
ResumeStep(t) == calls[t].pc = "wrap" /\ calls'[t].pc = "done"

\* C26: encrypt never encrypts a payload with a data key generated more than
\* dataKeyTtlMs earlier, also when the call was suspended on the provider's
\* wrap. The cache entry of a data key is set when the key is generated and
\* expires dataKeyTtlMs later: when the payload is encrypted under a data key
\* the cache still holds, that moment is not past the entry's expiry.
C26_DataKeyWithinTtl ==
  [][\A t \in CallIds : ResumeStep(t) =>
       \A i \in 1..Len(cache) :
         cache[i].value = bulkKey(calls[t], cache, keyVersion) => now <= cache[i].expiresAt]_vars

--------------------------------------------------------------------------
(* measureLatency: once per call *)

\* C27: a call of an instrumented operation records nothing while its
\* attempts and backoff waits go on, and exactly one latency sample and one
\* counter increment when it is over, as the last effects of the call: the
\* sample covers the whole retried sequence and the counter is labelled
\* success when the call returns and error when it throws.
C27_MetricsOncePerCall ==
  pipe.cfg.metrics =>
    IF Finished
    THEN /\ MetricEntries =
              <<Latency(pipe.request.op, pipe.elapsed),
                Counted(pipe.request.op,
                        IF pipe.outcome.kind = "ok" THEN "success" ELSE "error")>>
         /\ SubSeq(pipe.log, Len(pipe.log) - 1, Len(pipe.log)) = MetricEntries
         /\ pipe.outcome.kind \in {"ok", "error"}
    ELSE MetricEntries = << >>

\* C27 happens: an instrumented call whose inner retry layer made several
\* attempts ended with an error and left one sample and one increment.
C27_Witness ==
  /\ pipe.cfg.metrics /\ pipe.cfg.retry /\ Finished
  /\ pipe.attempt >= 2
  /\ Len(Entries({"wait"})) >= 1
  /\ pipe.outcome.kind = "error"
  /\ Len(Entries({"latency"})) = 1
  /\ Entries({"counter"}) = <<Counted(pipe.request.op, "error")>>

--------------------------------------------------------------------------
(* Circuit breaker: what the caller of healthCheck gets *)

\* C28: a healthCheck call the breaker forwarded gives its caller exactly
\* what the wrapped check gave: the result, healthy or unhealthy, also when
\* the settlement opens the breaker, or the error thrown. CircuitBreakerOpen
\* is only the answer of a call that was not forwarded. A forwarded call
\* invokes the wrapped check once, and a settlement, failed or not, invokes
\* nothing again.
C28_ForwardedAnswerAsIs ==
  /\ [][SettleStep => cbLast'.op = "settled" /\ cbLast'.got = cbLast'.outcome]_vars
  /\ [](cbLast.got = "CircuitBreakerOpen" => cbLast.op = "rejected" /\ rejects(cbLast.pre, cbLast.at))
  /\ [][(CallStep /\ cbLast'.op = "forwarded") => inflight' = inflight + 1]_vars
  /\ [][(CallStep /\ cbLast'.op = "rejected") => inflight' = inflight]_vars
  /\ [][inflight' > inflight => cbLast'.op = "forwarded"]_vars

\* C28 happens: the wrapped check reported unhealthy, the settlement opened
\* the breaker, and the caller got the unhealthy result.
C28_Witness ==
  /\ cbLast.op = "settled"
  /\ cbLast.outcome = "unhealthy"
  /\ cbLast.got = "unhealthy"
  /\ cbLast.pre.state # OPEN
  /\ cb.state = OPEN

--------------------------------------------------------------------------
(* Circuit breaker: recovery *)

\* C29: if from some point on the wrapped check only reports healthy and
\* healthCheck is called one call at a time, and time goes on until an OPEN
\* breaker's nextAttempt is reached, then the breaker is eventually CLOSED and
\* stays CLOSED.
C29_Recovers ==
  (/\ <>[][~FailureStep /\ inflight' <= 1]_vars
   /\ []<>(cb.state = OPEN => now >= cb.nextAttempt))
    => <>[](cb.state = CLOSED)

\* C29 happens: the breaker had opened, time passed, and healthy results
\* observed one call at a time in HALF_OPEN closed it.
C29_Witness ==
  /\ cb.state = CLOSED
  /\ cbLast.op = "settled" /\ cbLast.got = "healthy"
  /\ cbLast.pre.state = HALF_OPEN
  /\ hoStreak >= cbCfg.successThreshold
  /\ inflight = 0
  /\ now >= cbCfg.resetTimeoutMs
  /\ cbCfg.resetTimeoutMs >= 1

--------------------------------------------------------------------------
(* LocalKeyManagement.rotateKey: what rotation replaces *)

\* the step is a rotateKey call
OpsRotateStep == ops'.last.op = "rotateKey"

\* C30: rotateKey(k) leaves k in the key store with key bytes that differ
\* from the ones it had and changes no other key; a decrypt of a result that
\* was encrypted under k before a rotation of k does not return the plaintext
\* (it fails), and a result encrypted after the rotations of its key decrypts
\* to its plaintext.
C30_RotationReplacesMaterial ==
  /\ [][OpsRotateStep =>
          /\ ops'.keys[ops'.last.keyId] \notin {NoKey, ops.keys[ops'.last.keyId]}
          /\ \A k \in OpsKeyIds \ {ops'.last.keyId} : ops'.keys[k] = ops.keys[k]]_vars
  /\ [](ops.last.op = "decrypt" /\ ops.last.held /\ ops.held.rotated =>
          /\ ops.last.outcome.kind = "error"
          /\ ops.last.outcome # Resolved(Undefined, Undefined, ops.held.request.plaintext))
  /\ [](ops.last.op = "decrypt" /\ ops.last.held /\ ~ops.held.rotated
          /\ ops.drawn[ops.held.result.keyId] >= 2 =>
          ops.last.outcome = Resolved(Undefined, Undefined, ops.held.request.plaintext))

\* C30 happens: the default key was rotated while a result encrypted under it
\* was kept, and the decrypt of that result failed with the key still in the
\* store.
C30_Witness ==
  /\ ops.last.op = "decrypt" /\ ops.last.held /\ ops.held.rotated
  /\ ops.held.result.keyId = OpsDefaultKeyId
  /\ ops.last.outcome.kind = "error"
  /\ ops.keys[OpsDefaultKeyId] \notin {NoKey, randomBytes("key", OpsDefaultKeyId \o "#1")}
  /\ ops.drawn[OpsDefaultKeyId] >= 2

\* a result encrypted after a rotation of its key decrypts to its plaintext
C30_AfterRotationRoundTrips ==
  /\ ops.last.op = "decrypt" /\ ops.last.held /\ ~ops.held.rotated
  /\ ops.drawn[ops.held.result.keyId] >= 2
  /\ ops.last.outcome.kind = "ok"

--------------------------------------------------------------------------
(* KeySoftDeleteManager: purge protection *)

\* key k is soft-deleted and purge-protected, and the step leaves the protection on
ProtectedDeleted(k) ==
  /\ sd.deletedKeys[k].deleted
  /\ k \in sd.purgeProtectedKeys
  /\ k \in sd'.purgeProtectedKeys

\* C31: while a soft-deleted key is purge-protected, purgeKey on it throws
\* and leaves its entry as it was, and the only step that takes it out of
\* the deleted set is a recoverKey of it within the retention window.
C31_ProtectedNeverPurged ==
  [][\A k \in SdKeyIds : ProtectedDeleted(k) =>
       /\ (sd'.last.op = "purgeKey" /\ sd'.last.keyId = k) =>
            (sd'.last.outcome = "Error" /\ sd'.deletedKeys[k] = sd.deletedKeys[k])
       /\ ~sd'.deletedKeys[k].deleted =>
            /\ sd'.last.op = "recoverKey" /\ sd'.last.keyId = k
            /\ now <= sd.deletedKeys[k].recoverableUntil]_vars

\* the part of C31 about purgeKey alone
C31_PurgeKeyRejects ==
  [][\A k \in SdKeyIds : ProtectedDeleted(k) =>
       ((sd'.last.op = "purgeKey" /\ sd'.last.keyId = k) =>
          (sd'.last.outcome = "Error" /\ sd'.deletedKeys[k] = sd.deletedKeys[k]))]_vars

--------------------------------------------------------------------------
(* ComplianceAuditLogger: the bound of the log *)

\* the last n elements of a, all of a when it has fewer
LastOf(a, n) == IF n >= Len(a) THEN a ELSE SubSeq(a, Len(a) - n + 1, Len(a))

\* C32: whatever maxLogSize the logger was built with, after any record
\* calls it holds at most maxLogSize events, and they are the maxLogSize most
\* recently recorded ones (all of them when fewer were recorded) in the order
\* they were recorded.
C32_LogBounded ==
  /\ Len(alog.auditLog) <= alog.maxLogSize
  /\ alog.auditLog = LastOf(alog.recorded, alog.maxLogSize)

\* C32 for a logger built with a maxLogSize of at least 1
C32_LogBoundedPositive == alog.maxLogSize >= 1 => C32_LogBounded

--------------------------------------------------------------------------
(* NetworkSecurityManager: deny wins *)

\* the stored policies of an effect that match the last evaluateAccess call
StoredMatching(effect) ==
  {i \in 1..Len(net.policies) :
     /\ net.policies[i].effect = effect
     /\ policyMatches(net.policies[i], net.last.principal, net.last.action, net.last.resource)}

\* C33: after any addPolicy and removePolicy calls, evaluateAccess returns
\* true exactly when no stored deny policy matches and some stored allow
\* policy matches, wherever in the insertion order they are; no rule
\* identifier is stored twice.
C33_DenyWins ==
  /\ \A i, j \in 1..Len(net.policies) : net.policies[i].ruleId = net.policies[j].ruleId => i = j
  /\ net.last.op = "evaluateAccess" =>
       (net.last.result <=> (StoredMatching("deny") = {} /\ StoredMatching("allow") # {}))

\* C33 happens: an allow policy that matches was added before a deny policy
\* that matches, and access was denied.
C33_Witness ==
  /\ net.last.op = "evaluateAccess"
  /\ ~net.last.result
  /\ \E i \in StoredMatching("allow"), j \in StoredMatching("deny") : i < j

\* access is granted with a stored deny policy that does not match
C33_Granted ==
  /\ net.last.op = "evaluateAccess"
  /\ net.last.result
  /\ \E i \in 1..Len(net.policies) : net.policies[i].effect = "deny"

--------------------------------------------------------------------------
(* Policy rules about algorithms, and what a failed encrypt leaves behind *)

\* the algorithm the last encrypt or decrypt call is executed with:
\* request.algorithm ?? AES_256_GCM
ExecutedAlgorithm == IF ops.last.algorithm = Undefined THEN AES_256_GCM ELSE ops.last.algorithm

\* a rule for the last call's action lists allowed algorithms, and the
\* algorithm executed is not one of them
AlgorithmNotAllowed ==
  /\ ops.policy
  /\ ops.last.op \in {"encrypt", "decrypt"}
  /\ \E i \in 1..Len(ops.rules) :
       /\ ops.rules[i].action = ops.last.op
       /\ ops.rules[i].allowedAlgorithms.given
       /\ ExecutedAlgorithm \notin ops.rules[i].allowedAlgorithms.of

\* C34: an encrypt or decrypt call whose executed algorithm, given in the
\* request or the default, is outside a matching rule's allowedAlgorithms is
\* rejected with PolicyViolation.
C34_ExecutedAlgorithmEnforced ==
  AlgorithmNotAllowed =>
    (ops.last.outcome.kind = "error" /\ ops.last.outcome.code = POLICY_VIOLATION)

\* C34 for the calls that name their algorithm
C34_GivenAlgorithmEnforced == ops.last.algorithm # Undefined => C34_ExecutedAlgorithmEnforced

\* C35: an encrypt call that fails with UnsupportedAlgorithm leaves the key
\* store as it was, and a decrypt with a key identifier that holds no key
\* fails with KeyNotFound.
C35_FailedEncryptProvisionsNothing ==
  /\ [][(OpsEncryptStep /\ ops'.last.outcome.code = UNSUPPORTED_ALGORITHM) =>
          ops'.keys = ops.keys]_vars
  /\ [][(OpsDecryptStep /\ ops.keys[ops'.last.keyId] = NoKey) =>
          ops'.last.outcome.code = KEY_NOT_FOUND]_vars

\* the decrypt half of C35
C35_DecryptOfAbsentKey ==
  [][(OpsDecryptStep /\ ops.keys[ops'.last.keyId] = NoKey) =>
       ops'.last.outcome.code = KEY_NOT_FOUND]_vars

--------------------------------------------------------------------------
(* ProviderAdapter: what goes around the decorators *)

\* the step is a generateKey, rotateKey or getKeyMetadata call
KeyMgmtStep == ops'.last.op \in {"generateKey", "rotateKey", "getKeyMetadata"} /\ ops' # ops

\* the step is a healthCheck call or the settlement of one
HealthStep == cbLast' # cbLast \/ inflight' # inflight

\* C36: whichever decorators are configured, a generateKey, rotateKey or
\* getKeyMetadata call leaves the effects of the decorators as they were (no
\* policy check, audit event, retry or metric: every recorded effect is one
\* of an encrypt call) and leaves the breaker alone; its outcome is the one
\* of LocalKeyManagement; a healthCheck changes the breaker only and is
\* answered as the breaker answers.
C36_KeyMgmtAndHealthDirect ==
  /\ [][KeyMgmtStep => (pipe' = pipe /\ UNCHANGED cbVars)]_vars
  /\ [][HealthStep => (pipe' = pipe /\ ops' = ops)]_vars
  /\ [](\A i \in 1..Len(pipe.log) : pipe.log[i].op = "encrypt")
  /\ [](ops.last.op = "getKeyMetadata" =>
          ops.last.outcome.kind = (IF ops.keys[ops.last.keyId] # NoKey THEN "ok" ELSE "error"))
  /\ [](ops.last.op \in {"generateKey", "rotateKey"} => ops.keys[ops.last.keyId] # NoKey)
  /\ [](cbLast.op = "settled" => cbLast.got = cbLast.outcome)
  /\ [](cbLast.op = "rejected" => rejects(cbLast.pre, cbLast.at))

\* C36 happens: with all four decorators configured and an encrypt call
\* finished that left its effects, keys were generated and rotated, a
\* getKeyMetadata of an unknown identifier failed, and failed health checks
\* opened the breaker.
C36_Witness ==
  /\ pipe.cfg.policy /\ pipe.cfg.audit /\ pipe.cfg.retry /\ pipe.cfg.metrics
  /\ pipe.pc = "done" /\ Len(pipe.log) >= 2
  /\ ops.last.op = "getKeyMetadata" /\ ops.last.outcome.kind = "error"
  /\ ops.draws >= 2
  /\ cb.state = OPEN

--------------------------------------------------------------------------
(* EnvelopeEncrypter.encrypt: one wrap per call *)

\* what the provider's decrypt makes of the wrapped data key of call t
WrapOpened(t) ==
  LET w == calls[t].wrappedDataKey
  IN aesGcmDecrypt(providerKeys[calls[t].keyId], w.iv, w.additionalData, w.authTag, w.ciphertext)

\* call t started with a cache miss and its wrap call rejects in this step
RejectedOnMiss(t) == calls[t].pc = "idle" /\ calls'[t].pc = "rejected" /\ ~calls'[t].hit

\* C37: every encrypt call that has reached its provider call has invoked
\* the provider's encrypt once, on a hit as on a miss, and when it resolved
\* the wrapped key is the wrap of the call's data key; on a hit the data key
\* is one an earlier call generated, on a miss it is the one generated by
\* this call; when the wrap call rejects on a miss the new data key is in the
\* cache after the step.
C37_OneWrapPerCall ==
  /\ [](\A t \in CallIds : calls[t].pc # "idle" =>
          /\ calls[t].wraps = 1
          /\ calls[t].pc \in {"wrap", "done"} => WrapOpened(t) = calls[t].dataKey
          /\ calls[t].hit =>
               \E u \in 1..(t - 1) : calls[t].dataKey = randomBytes("dataKey", ToString(u))
          /\ ~calls[t].hit => calls[t].dataKey = randomBytes("dataKey", ToString(t)))
  /\ [][\A t \in CallIds : RejectedOnMiss(t) => calls'[t].dataKey \in ValuesOf(cache')]_vars

\* C37 happens: a call whose wrap rejected on a miss left its data key in
\* the cache, and the next call hit that key and wrapped it.
C37_Witness ==
  /\ calls[1].pc = "rejected" /\ ~calls[1].hit
  /\ calls[2].pc = "done" /\ calls[2].hit
  /\ calls[2].dataKey = calls[1].dataKey
  /\ calls[2].wraps = 1
  /\ WrapOpened(2) = calls[2].dataKey

--------------------------------------------------------------------------
(* withRetry: no attempt at all *)

\* the retry decorator is configured with maxAttempts <= 0 and a call was made
NoRound == pipe.cfg.retry /\ pipe.cfg.retryCfg.maxAttempts <= 0 /\ pipe.pc # "idle"

\* C38: under a retry configuration with maxAttempts <= 0 a call makes no
\* attempt (the wrapped operation is never invoked, nothing is audited, no
\* delay is waited for) and resolves with undefined.
C38_NoAttemptResolvesUndefined ==
  NoRound =>
    /\ pipe.pc \in {"settle", "done"}
    /\ pipe.attempt = 0
    /\ pipe.outcome = Resolved(Undefined, Undefined, Undefined)
    /\ \A i \in 1..Len(pipe.log) : pipe.log[i].kind \in {"latency", "counter"}

\* C38 happens: with every decorator configured and a negative maxAttempts,
\* a call is done, and the metrics count it as a success.
C38_Witness ==
  /\ NoRound /\ pipe.pc = "done"
  /\ pipe.cfg.retryCfg.maxAttempts < 0
  /\ pipe.cfg.policy /\ pipe.cfg.audit /\ pipe.cfg.metrics
  /\ pipe.outcome.kind = "ok" /\ pipe.outcome.value = Undefined
  /\ \E i \in 1..Len(pipe.log) : pipe.log[i].kind = "counter" /\ pipe.log[i].status = "success"

====
